---------------------------- MODULE Spec2Model ----------------------------
(***************************************************************************)
(* Model of the deterministic decision engine of the real-estate lead      *)
(* triage service: the agent router (app/agent/router.py), the session     *)
(* state and its conflict rule (app/agent/state.py), the question selector *)
(* (app/agent/rules.py), the quality gate (app/agent/quality_gate.py) and  *)
(* the triage branch of the turn handler (app/agent/controller.py).        *)
(***************************************************************************)
EXTENDS Integers, Sequences, FiniteSets, TLC

VARIABLES
    file,      \* agent_stats.json: [exists, date, agents: id -> [n, last]]
    today,     \* date.today(), a day number
    clock,     \* datetime.utcnow(), a logical timestamp (0 = never assigned)
    req,       \* sequential router: the arguments of the last choose_agent call
    res,       \* sequential router: the RoutingResult of the last call
    pc,        \* concurrent router: each worker's position in choose_agent
    pend,      \* concurrent router: each worker's local stats dict and result
    lock,      \* _stats_lock: its holder, or "free"
    tmp,       \* agent_stats.json.tmp: the content written, or the value NoTmp
    granted,   \* concurrent router: how many calls returned an agent
    store,     \* InMemoryStore._store: session_id -> SessionState
    updates,   \* the updates handed to apply_updates
    ret,       \* what apply_updates returned: conflicts, conflict_values
    applied,   \* how many calls of apply_updates (SpecApply) or handle_message (SpecTurn) were made
    msg,       \* the message handle_message was called with
    out,       \* what handle_message answered: the kind of reply, the key asked
    persistence, \* the files of persistence.py: lead lines, name index, events
    gate_asked, \* the keys the quality gate asked each session, in order, since the session started
    llm,       \* llm.py: _rate_limit_until, _message_cache and whether the LLM is in use
    decided    \* what llm_decide returned to each session on its last call

routerVars == <<file, today, clock>>
seqVars == <<req, res>>
raceVars == <<pc, pend, lock, tmp, granted>>
sessionVars == <<store, updates, ret, applied, msg, out, persistence, gate_asked>>
llmVars == <<llm, decided>>
vars == <<file, today, clock, req, res, pc, pend, lock, tmp, granted,
          store, updates, ret, applied, msg, out, persistence, gate_asked,
          llm, decided>>

(***************************************************************************)
(* Bounds of the model.                                                    *)
(***************************************************************************)
MaxAssign == 3      \* routing decisions explored per concurrent behaviour
MaxCount == 2       \* assigned_today of a stored entry before a decision
MaxStamp == 2       \* last_assigned_at of a stored entry before a decision
MaxApply == 2       \* calls of apply_updates with one batch
MaxTurns == 5       \* messages handled in one behaviour of SpecTurn

(***************************************************************************)
(* router.py: values and normalisation.                                    *)
(***************************************************************************)
None == "none"

\* str.lower().strip() on the neighbourhood names of the model.
Lower(s) ==
    CASE s = "Manaira" -> "manaira"
      [] s = "MANAIRA " -> "manaira"
      [] s = "Bessa" -> "bessa"
      [] s = "Centro" -> "centro"
      [] OTHER -> s

_normalize_neighborhood(nb) == IF nb = None \/ nb = "" THEN None ELSE Lower(nb)

\* lower().strip(), then "(praia)" and "_da_praia" removed, then strip().
_normalize_micro_location(m) ==
    CASE m = None -> None
      [] m = "" -> None
      [] m = "beira-mar (praia)" -> "beira-mar"
      [] m = "Beira-Mar" -> "beira-mar"
      [] m = "1_quadra_da_praia" -> "1_quadra"
      [] m = "orla (praia)" -> "orla"
      [] OTHER -> m

_get_intent_type(intent) ==
    CASE intent \in {"alugar", "aluguel"} -> "rent"
      [] intent \in {"comprar", "compra"} -> "buy"
      [] intent = "investir" -> "buy"
      [] OTHER -> None

(***************************************************************************)
(* The agents the rosters are drawn from (Agent records, router.py:33-47). *)
(***************************************************************************)
AgentIds == {"match", "other", "gen", "off", "rent"}

Agent(id) ==
    CASE id = "match" ->
           [id |-> id, active |-> TRUE, ops |-> {"buy", "rent"},
            coverage_neighborhoods |-> {"MANAIRA "},
            micro_location_tags |-> {"Beira-Mar"},
            price_min |-> 500000, price_max |-> 3000000,
            specialties |-> {"alto_padrao"}, daily_capacity |-> 1,
            priority_tier |-> "senior"]
      [] id = "other" ->
           [id |-> id, active |-> TRUE, ops |-> {"buy", "rent"},
            coverage_neighborhoods |-> {"Bessa"},
            micro_location_tags |-> {},
            price_min |-> 200000, price_max |-> 1000000,
            specialties |-> {"familia"}, daily_capacity |-> 2,
            priority_tier |-> "standard"]
      [] id = "gen" ->
           [id |-> id, active |-> TRUE, ops |-> {"buy", "rent"},
            coverage_neighborhoods |-> {"*"},
            micro_location_tags |-> {},
            price_min |-> 0, price_max |-> 999999999,
            specialties |-> {"generalista", "pet_friendly"}, daily_capacity |-> 1,
            priority_tier |-> "junior"]
      [] id = "off" ->
           [id |-> id, active |-> FALSE, ops |-> {"buy", "rent"},
            coverage_neighborhoods |-> {"Manaira"},
            micro_location_tags |-> {},
            price_min |-> 0, price_max |-> 999999999,
            specialties |-> {}, daily_capacity |-> 1,
            priority_tier |-> "standard"]
      [] id = "rent" ->
           [id |-> id, active |-> TRUE, ops |-> {"rent"},
            coverage_neighborhoods |-> {},
            micro_location_tags |-> {},
            price_min |-> 0, price_max |-> 999999999,
            specialties |-> {}, daily_capacity |-> 1,
            priority_tier |-> "standard"]

\* A roster: the list of agents handed to choose_agent, as a sequence of ids;
\* the rosters explored hold no agent, one agent, or two in either order.
Injective(s) == \A i, j \in DOMAIN s : s[i] = s[j] => i = j
Rosters ==
    UNION {{s \in [1..n -> AgentIds] : Injective(s)} : n \in {0, 1, 2}}

\* The parts of the lead's SessionState the router reads: intent, the
\* neighbourhood, and the criteria and temperature the soft score reads.
LeadProfiles ==
    {[micro_location |-> None, budget |-> 0, bedrooms |-> 0, pet |-> FALSE,
      temperature |-> "cold"],
     [micro_location |-> "beira-mar (praia)", budget |-> 1200000, bedrooms |-> 3,
      pet |-> TRUE, temperature |-> "hot"]}

Leads ==
    {[intent |-> i, neighborhood |-> nb, micro_location |-> pr.micro_location,
      budget |-> pr.budget, bedrooms |-> pr.bedrooms, pet |-> pr.pet,
      temperature |-> pr.temperature] :
        i \in {"comprar", "alugar"}, nb \in {None, "Manaira", "Centro"},
        pr \in LeadProfiles}

(***************************************************************************)
(* router.py: the stats store.                                             *)
(***************************************************************************)
AgentStats == [n |-> 0, last |-> 0]
EmptyStats == [id \in {} |-> AgentStats]

\* stats.get(agent.id, AgentStats())
StatsGet(stats, id) == IF id \in DOMAIN stats THEN stats[id] ELSE AgentStats

\* The days of the model: a stats file is written on day 0 and read on day
\* 0 or on the day after.
Days == {0, 1}

\* What load_stats would be without the daily reset.
LoadAsStored(f, day) == IF ~f.exists THEN EmptyStats ELSE f.agents

\* load_stats: {} without a file and for a file that does not parse; counts
\* zeroed when the stored date differs.
load_stats(f, day) ==
    IF ~f.exists THEN EmptyStats
    ELSE IF ~f.whole THEN EmptyStats
    ELSE IF f.date # day
         THEN [id \in DOMAIN f.agents |-> [n |-> 0, last |-> f.agents[id].last]]
         ELSE f.agents

\* The content save_stats writes: today's date and every entry of the dict.
StatsFile(stats, day) ==
    [exists |-> TRUE, date |-> day, agents |-> stats, whole |-> TRUE]

\* A file while json.dump is still writing it: text that does not parse.
Truncated(content) == [content EXCEPT !.whole = FALSE]

\* stats[id].assigned_today += 1; stats[id].last_assigned_at = now
Assign(stats, id, now) ==
    [k \in DOMAIN stats \cup {id} |->
        IF k = id THEN [n |-> StatsGet(stats, id).n + 1, last |-> now]
        ELSE stats[k]]

(***************************************************************************)
(* router.py: score_agent.  The score alone is modelled; the reasons list  *)
(* is log text.  Excluded is the -1000 every hard filter returns.          *)
(***************************************************************************)
Excluded == 0 - 1000

AgentNeighborhoods(agent) ==
    {_normalize_neighborhood(n) : n \in agent.coverage_neighborhoods}

IsGeneralist(agent) ==
    ("generalista" \in agent.specialties) \/ ("*" \in agent.coverage_neighborhoods)

\* Mutant: the neighbourhood filter is soft only (a mismatch costs points).
NeighborhoodMismatchSoft(agent, lead) == FALSE

\* router.py:272-277, the neighbourhood hard filter.
NeighborhoodMismatchHard(agent, lead) ==
    LET lead_neighborhood == _normalize_neighborhood(lead.neighborhood)
    IN  /\ lead_neighborhood # None
        /\ AgentNeighborhoods(agent) # {}
        /\ lead_neighborhood \notin AgentNeighborhoods(agent)
        /\ ~IsGeneralist(agent)

\* router.py:342-346, the capacity filter of a decision without priority.
CapacityReached(agent, stats, priority) ==
    ~priority /\ StatsGet(stats, agent.id).n >= agent.daily_capacity

NeighborhoodPoints(agent, lead) ==
    LET lead_neighborhood == _normalize_neighborhood(lead.neighborhood)
    IN  IF lead_neighborhood # None
        THEN IF lead_neighborhood \in AgentNeighborhoods(agent) THEN 30
             ELSE IF agent.coverage_neighborhoods # {} THEN 0 - 10 ELSE 0
        ELSE IF agent.coverage_neighborhoods = {} \/ "generalista" \in agent.specialties
             THEN 5 ELSE 0

MicroPoints(agent, lead) ==
    LET lead_micro == _normalize_micro_location(lead.micro_location)
    IN  IF lead_micro # None
           /\ lead_micro \in {_normalize_micro_location(m) : m \in agent.micro_location_tags}
        THEN 15 ELSE 0

PricePoints(agent, lead) ==
    IF lead.budget = 0 THEN 0
    ELSE IF agent.price_min <= lead.budget /\ lead.budget <= agent.price_max
         THEN 20 ELSE 0 - 15

TierPoints(agent, lead) ==
    CASE lead.temperature = "hot" /\ agent.priority_tier = "senior" -> 10
      [] lead.temperature = "warm" /\ agent.priority_tier = "standard" -> 5
      [] lead.temperature = "cold" /\ agent.priority_tier = "junior" -> 5
      [] OTHER -> 0

SpecialtyPoints(agent, lead) ==
      (IF "alto_padrao" \in agent.specialties /\ lead.budget # 0 /\ lead.budget >= 900000
       THEN 10 ELSE 0)
    + (IF "familia" \in agent.specialties /\ lead.bedrooms >= 3 THEN 10 ELSE 0)
    + (IF "pet_friendly" \in agent.specialties /\ lead.pet THEN 5 ELSE 0)

\* router.py:347-350: a hot lead keeps a full agent, five points down.
CapacityPoints(agent, stats, priority) ==
    IF priority /\ StatsGet(stats, agent.id).n >= agent.daily_capacity THEN 0 - 5 ELSE 0

score_agent(agent, lead, stats, priority) ==
    LET intent_type == _get_intent_type(lead.intent)
    IN  IF ~agent.active THEN Excluded
        ELSE IF intent_type # None /\ intent_type \notin agent.ops THEN Excluded
        ELSE IF NeighborhoodMismatchHard(agent, lead) THEN Excluded
        ELSE IF CapacityReached(agent, stats, priority) THEN Excluded
        ELSE NeighborhoodPoints(agent, lead) + MicroPoints(agent, lead)
             + PricePoints(agent, lead) + TierPoints(agent, lead)
             + SpecialtyPoints(agent, lead) + CapacityPoints(agent, stats, priority)

(***************************************************************************)
(* router.py: choose_agent and _fallback_agent.  A decision is the record  *)
(* of what the call returns (agent = None for a None result) and of the    *)
(* stats dict it hands to save_stats (save = FALSE when it saves nothing). *)
(***************************************************************************)
NoDecision(stats) ==
    [agent |-> None, score |-> 0, strategy |-> None, fallback |-> FALSE,
     evaluated |-> 0, save |-> FALSE, stats |-> stats]

\* score_agent of every position of the roster (router.py:388-396).
Scores(roster, lead, stats, priority) ==
    [i \in DOMAIN roster |-> score_agent(Agent(roster[i]), lead, stats, priority)]

\* The positions of the roster that survive score_agent (score > -1000).
Scored(roster, lead, stats, priority) ==
    LET sc == Scores(roster, lead, stats, priority)
    IN  {i \in DOMAIN roster : sc[i] > Excluded}

\* sort_key of router.py:403-408: (-score, assigned_today, last_assigned_at),
\* where a missing last_assigned_at is the epoch, stamp 0.
KeyLess(s1, n1, l1, s2, n2, l2) ==
    \/ s1 > s2
    \/ s1 = s2 /\ n1 < n2
    \/ s1 = s2 /\ n1 = n2 /\ l1 < l2

\* The first of the highest score in the order of the roster: a sort on the
\* score alone.
BestByScoreOnly(roster, lead, stats, priority) ==
    LET sc == Scores(roster, lead, stats, priority)
        S == {i \in DOMAIN roster : sc[i] > Excluded}
    IN  CHOOSE i \in S : \A j \in S \ {i} : sc[i] > sc[j] \/ (sc[i] = sc[j] /\ i < j)

\* scored_agents.sort(key=sort_key)[0]: list.sort is stable, so among equal
\* keys the agent that comes first in the roster wins.
BestScored(roster, lead, stats, priority) ==
    LET sc == Scores(roster, lead, stats, priority)
        S == {i \in DOMAIN roster : sc[i] > Excluded}
        st == [i \in DOMAIN roster |-> StatsGet(stats, roster[i])]
        Before(i, j) ==
            \/ KeyLess(sc[i], st[i].n, st[i].last, sc[j], st[j].n, st[j].last)
            \/ ~KeyLess(sc[j], st[j].n, st[j].last, sc[i], st[i].n, st[i].last) /\ i < j
    IN  CHOOSE i \in S : \A j \in S \ {i} : Before(i, j)

\* The first position of least assigned_today among the positions in S
\* (a stable sort on assigned_today, then element 0).
LeastLoaded(roster, stats, S) ==
    CHOOSE i \in S :
        \A j \in S \ {i} :
            \/ StatsGet(stats, roster[i]).n < StatsGet(stats, roster[j]).n
            \/ StatsGet(stats, roster[i]).n = StatsGet(stats, roster[j]).n /\ i < j

\* router.py:483-496: the generalists the fallback may use.
Generalistas(roster, lead) ==
    LET lead_neighborhood == _normalize_neighborhood(lead.neighborhood)
        desired_op == _get_intent_type(lead.intent)
    IN  {i \in DOMAIN roster :
            LET a == Agent(roster[i])
                has_wildcard == "*" \in a.coverage_neighborhoods
                is_generalist == "generalista" \in a.specialties
            IN  /\ a.active
                /\ ~(desired_op # None /\ desired_op \notin a.ops)
                /\ IF lead_neighborhood # None
                   THEN has_wildcard \/ is_generalist
                   ELSE is_generalist \/ has_wildcard \/ a.coverage_neighborhoods = {}}

\* Every position of the roster: a last resort that tests nothing.
AnyPosition(roster, lead) == DOMAIN roster

\* router.py:540: any active agent that supports the operation.
ActiveCompatible(roster, lead) ==
    LET desired_op == _get_intent_type(lead.intent)
    IN  {i \in DOMAIN roster :
            Agent(roster[i]).active
            /\ (desired_op = None \/ desired_op \in Agent(roster[i]).ops)}

_fallback_agent(roster, stats, lead, allow_mismatch, now) ==
    LET lead_neighborhood == _normalize_neighborhood(lead.neighborhood)
        G == Generalistas(roster, lead)
        A == ActiveCompatible(roster, lead)
    IN  IF G # {}
        THEN LET fb == roster[LeastLoaded(roster, stats, G)]
             IN  [agent |-> fb, score |-> 0, strategy |-> "fallback_generalista",
                  fallback |-> TRUE, evaluated |-> Len(roster), save |-> TRUE,
                  stats |-> Assign(stats, fb, now)]
        ELSE IF A # {}
        THEN IF lead_neighborhood # None /\ ~allow_mismatch
             THEN NoDecision(stats)
             ELSE LET fb == roster[LeastLoaded(roster, stats, A)]
                  IN  [agent |-> fb, score |-> 0,
                       strategy |-> IF lead_neighborhood # None
                                    THEN "fallback_default_queue_mismatch"
                                    ELSE "fallback_default_queue",
                       fallback |-> TRUE, evaluated |-> Len(roster), save |-> TRUE,
                       stats |-> Assign(stats, fb, now)]
        ELSE NoDecision(stats)

\* router.py:388-393: some agent of the roster lists the lead's neighbourhood.
MatchFound(roster, lead) ==
    LET lead_neighborhood == _normalize_neighborhood(lead.neighborhood)
    IN  /\ lead_neighborhood # None
        /\ \E i \in DOMAIN roster : lead_neighborhood \in AgentNeighborhoods(Agent(roster[i]))

\* choose_agent on the stats it loaded (router.py:376-463).
choose_agent(roster, lead, loaded, priority, now) ==
    IF roster = <<>> THEN NoDecision(EmptyStats)
    ELSE LET stats == [k \in DOMAIN loaded \cap {roster[i] : i \in DOMAIN roster} |-> loaded[k]]
             sc == Scores(roster, lead, stats, priority)
             S == {i \in DOMAIN roster : sc[i] > Excluded}
         IN  IF S = {}
             THEN _fallback_agent(roster, stats, lead, MatchFound(roster, lead), now)
             ELSE LET b == BestScored(roster, lead, stats, priority)
                  IN  [agent |-> roster[b], score |-> sc[b],
                       strategy |-> "score_based", fallback |-> FALSE,
                       evaluated |-> Cardinality(S), save |-> TRUE,
                       stats |-> Assign(stats, roster[b], now)]

\* What reading the agents file comes to: the roster it holds is read, the
\* file and its example are both missing, or reading or parsing it fails.
LoadOutcomes == {"ok", "missing", "invalid"}

\* A loader that hands on whatever the file holds.
LoadUnchecked(r) == r.roster

\* load_agents: [] for a missing file and for any error while reading.
load_agents(r) == IF r.load = "ok" THEN r.roster ELSE <<>>

\* route_lead: None without agents, else choose_agent; any exception is
\* caught and turned into None (router.py:610-620).
route_lead(r, loaded, now) ==
    LET agents == load_agents(r)
    IN  IF agents = <<>> THEN NoDecision(EmptyStats)
        ELSE choose_agent(agents, r.lead, loaded, r.priority, now)

(***************************************************************************)
(* state.py: the session state and the normalisation of field values.      *)
(* Values are written as text: a number is its decimal numeral ("500000"), *)
(* None is the value None.  The stamps source and updated_at of a field    *)
(* are not modelled: no decision reads them.                               *)
(***************************************************************************)
SessionIds == {"s1"}

\* The keys of triage_fields in the model; those of CriteriaKeys are
\* attributes of LeadCriteria as well (state.py:8-28).
TriageKeys ==
    {"city", "neighborhood", "property_type", "bedrooms", "parking", "budget",
     "timeline", "micro_location", "condo_max", "payment_type", "intent_stage",
     "budget_min"}
CriteriaKeys == TriageKeys \ {"payment_type", "intent_stage"}

\* The numerals of the model and the numbers they denote.
Num(v) ==
    CASE v = "1" -> 1
      [] v = "3" -> 3
      [] v = "800" -> 800
      [] v = "400000" -> 400000
      [] v = "500000" -> 500000
      [] v = "700000" -> 700000
      [] v = "900000" -> 900000
      [] OTHER -> 0
Numerals == {"1", "3", "800", "400000", "500000", "700000", "900000"}

\* int() of a number; of a text: "k" multiplies by 1000; a text holding
\* "mi" takes the million branch, so "500 mil" becomes "500l" and fails to
\* parse; a failure returns None.
_normalize_numeric(value) ==
    CASE value = None -> None
      [] value \in Numerals -> value
      [] value = "700k" -> "700000"
      [] value = "500 mil" -> None
      [] OTHER -> None

\* The first pattern found in the lowered text decides; None when none is.
_normalize_timeline(value) ==
    CASE value = None -> None
      [] value = "30d" -> "30d"
      [] value = "3 meses" -> "3m"
      [] value = "6 meses" -> "6m"
      [] value = "12m" -> "12m"
      [] value = "sem pressa" -> "flexivel"
      [] OTHER -> None

\* SessionState._normalize_micro_location: "beira" or "praia" in the text
\* gives the beach front, before the tests for blocks and for "orla".
state_normalize_micro_location(value) ==
    CASE value = None -> None
      [] value \in {"beira-mar", "beira-mar (praia)"} -> "beira-mar (praia)"
      [] value \in {"orla (praia)", "1_quadra_da_praia"} -> "beira-mar (praia)"
      [] value = "1 quadra" -> "1_quadra_da_praia"
      [] value = "orla" -> "orla (praia)"
      [] OTHER -> value

_apply_alias(key) ==
    CASE key = "operation" -> "intent"
      [] key = "budget_max" -> "budget"
      [] key = "bedrooms_min" -> "bedrooms"
      [] key = "suites_min" -> "suites"
      [] key = "parking_min" -> "parking"
      [] key = "timeline_bucket" -> "timeline"
      [] key = "city_confirm" -> "city"
      [] OTHER -> key

\* The normalisation by field type, on the key after alias resolution (the
\* keys furnished and pet, normalised as booleans, are not in the model).
NormalizeValue(key, value) ==
    CASE key \in {"budget", "budget_min", "parking", "bedrooms", "suites", "condo_max"} ->
           _normalize_numeric(value)
      [] key = "timeline" ->
           IF _normalize_timeline(value) # None THEN _normalize_timeline(value) ELSE value
      [] key = "micro_location" -> state_normalize_micro_location(value)
      [] OTHER -> value

_normalize_for_field(key, value) ==
    <<_apply_alias(key), NormalizeValue(_apply_alias(key), value)>>

NoField == [value |-> None, status |-> None]

\* An entry of the dict of updates: key -> {value, status}.
Statuses == {"confirmed", "inferred", "override"}
Upd(k, v, st) == [key |-> k, value |-> v, status |-> st]

\* SessionState(session_id): the fields the dataclass declares.
SessionState ==
    [intent |-> None,
     criteria |-> [k \in CriteriaKeys |-> None],
     criteria_status |-> [k \in CriteriaKeys |-> None],
     triage_fields |-> [k \in TriageKeys |-> NoField],
     lead_profile |-> [name |-> None, phone |-> None, email |-> None],
     asked_questions |-> <<>>,
     last_question_key |-> None,
     lead_score |-> [temperature |-> "cold", score |-> 0],
     completed |-> FALSE,
     human_handoff |-> FALSE,
     history |-> <<>>]

\* The keys a question can be about.
QuestionKeys == TriageKeys \cup {"intent", "city_confirm", "lead_name"}

\* The fields handle_message, the rules and the quality gate keep on the
\* session and the dataclass of state.py does not declare: counters that
\* start at 0, a flag that starts false, values not set yet.
SessionExtras ==
    [message_index |-> 0,
     quality_gate_turns |-> 0,
     field_refusals |-> [k \in QuestionKeys |-> 0],
     intent_stage |-> "unknown",
     hot_lead_emitted |-> FALSE,
     lead_class |-> None,
     sla |-> None]

\* The session store.get returns for an identifier it does not hold.
NewSession == SessionState @@ SessionExtras

\* set_criterion: the value is normalised again, then written to the
\* criteria (when the key is an attribute of them) and to triage_fields.
set_criterion(s, key0, value0, status) ==
    IF value0 = None THEN s
    ELSE LET key == _apply_alias(key0)
             value == NormalizeValue(key, value0)
         IN  [s EXCEPT
                !.criteria = IF key \in CriteriaKeys /\ value # None
                             THEN [@ EXCEPT ![key] = value] ELSE @,
                !.criteria_status = IF key \in CriteriaKeys /\ value # None
                                    THEN [@ EXCEPT ![key] = status] ELSE @,
                !.triage_fields = [@ EXCEPT ![key] = [value |-> value, status |-> status]]]

\* A rule that never finds a conflict.
FieldConflictNever(s, alias_key, norm_value) == FALSE

\* The conflict rule of apply_updates on a field other than the name, the
\* contact and the intent.
FieldConflict(s, alias_key, norm_value) ==
    /\ s.triage_fields[alias_key].status = "confirmed"
    /\ norm_value # None
    /\ s.triage_fields[alias_key].value \notin {None, norm_value}

\* The conflict rule of apply_updates on the intent.
IntentConflict(s, raw_value) ==
    /\ s.intent # None
    /\ raw_value # None
    /\ s.intent # raw_value
    /\ s.intent \in {"comprar", "alugar"}

\* A conflict that is reported and written over the stored field all the
\* same.
ConflictOverwrite(acc, key, previous, new) ==
    [acc EXCEPT !.conflicts = Append(@, key),
                !.conflict_values = (key :> [previous |-> previous, new |-> new]) @@ @,
                !.s = IF key \in TriageKeys
                      THEN set_criterion(acc.s, key, new, "confirmed")
                      ELSE [acc.s EXCEPT !.intent = new]]

Conflict(acc, key, previous, new) ==
    [acc EXCEPT !.conflicts = Append(@, key),
                !.conflict_values = (key :> [previous |-> previous, new |-> new]) @@ @]

\* One round of the loop of apply_updates; acc holds the state and the two
\* results so far.
ApplyUpdate(acc, e) ==
    LET s == acc.s
        nf == _normalize_for_field(e.key, e.value)
    IN  CASE e.key \in {"lead_name", "name"} ->
               IF e.value # None /\ s.lead_profile.name = None
               THEN [acc EXCEPT !.s.lead_profile.name = e.value] ELSE acc
          [] e.key \in {"phone", "email"} ->
               IF e.value # None
               THEN [acc EXCEPT !.s.lead_profile[e.key] = e.value] ELSE acc
          [] e.key \in {"intent", "operation"} ->
               IF e.status = "override" /\ e.value # None
               THEN [acc EXCEPT !.s.intent = e.value]
               ELSE IF IntentConflict(s, e.value)
               THEN Conflict(acc, "intent", s.intent, e.value)
               ELSE IF e.value # None THEN [acc EXCEPT !.s.intent = e.value]
               ELSE acc
          [] OTHER ->
               IF FieldConflict(s, nf[1], nf[2])
               THEN Conflict(acc, nf[1], s.triage_fields[nf[1]].value, nf[2])
               ELSE [acc EXCEPT !.s = set_criterion(s, nf[1], nf[2], e.status)]

RECURSIVE ApplyFrom(_, _, _)
ApplyFrom(acc, updates_, i) ==
    IF i > Len(updates_) THEN acc
    ELSE ApplyFrom(ApplyUpdate(acc, updates_[i]), updates_, i + 1)

\* apply_updates(updates): the entries in the order of the dict; the result
\* holds the state after them, conflicts and conflict_values.
apply_updates(s, updates_) ==
    ApplyFrom([s |-> s, conflicts |-> <<>>, conflict_values |-> <<>>], updates_, 1)

(***************************************************************************)
(* Lists as Python uses them.                                              *)
(***************************************************************************)
Range(seq) == {seq[i] : i \in DOMAIN seq}
Count(seq, x) == Cardinality({i \in DOMAIN seq : seq[i] = x})

\* The first element of seq that lies in S, or None.
FirstIn(seq, S) ==
    LET idx == {i \in DOMAIN seq : seq[i] \in S}
    IN  IF idx = {} THEN None
        ELSE seq[CHOOSE i \in idx : \A j \in idx : i <= j]

\* list.append(x) when x is not in the list yet.
AppendNew(seq, x) == IF x \in Range(seq) THEN seq ELSE Append(seq, x)

\* d[e.key] = e on a dict kept as the list of its entries.
DictSet(d, e) ==
    IF \E i \in DOMAIN d : d[i].key = e.key
    THEN [i \in DOMAIN d |-> IF d[i].key = e.key THEN e ELSE d[i]]
    ELSE Append(d, e)

RECURSIVE DictUpdate(_, _)
DictUpdate(d, more) ==
    IF more = <<>> THEN d ELSE DictUpdate(DictSet(d, Head(more)), Tail(more))

(***************************************************************************)
(* rules.py: the missing critical fields and the next question.            *)
(***************************************************************************)
CRITICAL_ORDER ==
    <<"intent", "city", "neighborhood", "property_type", "bedrooms", "parking",
      "budget", "timeline">>

_value(s, key) ==
    IF key \in TriageKeys /\ s.triage_fields[key].status # None
    THEN s.triage_fields[key].value
    ELSE IF key \in CriteriaKeys THEN s.criteria[key]
    ELSE IF key \in DOMAIN s.lead_profile THEN s.lead_profile[key]
    ELSE None

_status(s, key) ==
    IF key \in TriageKeys /\ s.triage_fields[key].status # None
    THEN s.triage_fields[key].status
    ELSE IF key = "intent" THEN (IF s.intent # None THEN "confirmed" ELSE None)
    ELSE None

Opt(cond, key) == IF cond THEN <<key>> ELSE <<>>

\* The check of the location alone: what missing_critical_fields would be
\* without its tests of the property and of the timeline.
MissingLocationOnly(s) ==
    Opt(s.intent = None, "intent")
    \o (IF _value(s, "city") = None THEN <<"city">>
        ELSE IF _status(s, "city") = "inferred" THEN <<"city_confirm">>
        ELSE <<>>)
    \o Opt(_value(s, "neighborhood") = None, "neighborhood")

missing_critical_fields(s) ==
    Opt(s.intent = None, "intent")
    \o (IF _value(s, "city") = None THEN <<"city">>
        ELSE IF _status(s, "city") = "inferred" THEN <<"city_confirm">>
        ELSE <<>>)
    \o Opt(_value(s, "neighborhood") = None, "neighborhood")
    \o Opt(_value(s, "property_type") = None, "property_type")
    \o Opt(_value(s, "bedrooms") = None, "bedrooms")
    \o Opt(_value(s, "parking") = None, "parking")
    \o Opt(_value(s, "budget") = None, "budget")
    \o Opt(_value(s, "timeline") = None, "timeline")
    \o Opt(_status(s, "micro_location") = "inferred"
              \/ _value(s, "micro_location") = "orla", "micro_location")

has_budget(s) == s.criteria["budget"] # None /\ Num(s.criteria["budget"]) > 0

_intent_stage_ready(s) ==
    /\ s.intent_stage = "unknown"
    /\ has_budget(s)
    /\ \/ s.criteria["bedrooms"] # None
       \/ s.criteria["neighborhood"] # None
       \/ s.criteria["city"] # None
    /\ Cardinality({k \in {"neighborhood", "city", "budget", "bedrooms",
                              "property_type"} : s.criteria[k] # None}) >= 2

next_best_question_key(s) ==
    LET missing == missing_critical_fields(s)
        asked == Range(s.asked_questions)
    IN  IF "micro_location" \in Range(missing) /\ "micro_location" \notin asked
        THEN "micro_location"
        ELSE IF /\ _intent_stage_ready(s)
                /\ "intent_stage" \notin asked
                /\ Range(missing) \cap {"intent", "city", "neighborhood", "property_type",
                                        "budget", "bedrooms", "micro_location"} = {}
        THEN "intent_stage"
        ELSE IF FirstIn(missing, Range(missing) \ asked) # None
        THEN FirstIn(missing, Range(missing) \ asked)
        ELSE IF missing # <<>> THEN missing[1]
        ELSE IF s.lead_profile.name = None /\ "lead_name" \notin asked THEN "lead_name"
        ELSE None

(***************************************************************************)
(* controller.py: _avoid_repeat_question.                                  *)
(***************************************************************************)
_avoid_repeat_question(s, proposed_key) ==
    LET missing == missing_critical_fields(s)
        other == FirstIn(missing, (Range(missing) \ {proposed_key})
                                      \ Range(s.asked_questions))
    IN  IF proposed_key = None THEN proposed_key
        ELSE IF proposed_key = "city" /\ s.criteria["city"] = None THEN proposed_key
        ELSE IF s.last_question_key # None /\ s.last_question_key = proposed_key
                /\ other # None
        THEN other
        ELSE proposed_key

(***************************************************************************)
(* quality.py: the quality score.                                          *)
(***************************************************************************)
Reason(tag, field) == [tag |-> tag, field |-> field]

\* The score and the reason of one critical field.
CriticalPart(s, field) ==
    IF field = "intent"
    THEN IF s.intent # None THEN [delta |-> 0, reasons |-> <<>>]
         ELSE [delta |-> 0 - 15, reasons |-> <<Reason("missing_critical", field)>>]
    ELSE IF s.triage_fields[field].status # None /\ s.triage_fields[field].value # None
    THEN IF s.triage_fields[field].status = "inferred"
         THEN [delta |-> 0 - 5, reasons |-> <<Reason("inferred", field)>>]
         ELSE [delta |-> 0, reasons |-> <<>>]
    ELSE [delta |-> 0 - 15, reasons |-> <<Reason("missing_critical", field)>>]

Part(cond, delta, tag) ==
    IF cond THEN [delta |-> delta, reasons |-> <<Reason(tag, None)>>]
    ELSE [delta |-> 0, reasons |-> <<>>]

\* The history holds a conflict question among its last three entries.
ConflictPending(s) == "conflict_question" \in Range(s.history)

\* The adjustments of compute_quality_score in the order the code applies
\* them (urgency and suites are not among the model's keys).
QualityParts(s) ==
    [i \in 1..8 |-> CriticalPart(s, CRITICAL_ORDER[i])]
    \o <<Part(/\ s.triage_fields["micro_location"].status # None
              /\ \/ s.triage_fields["micro_location"].value = "orla"
                 \/ s.triage_fields["micro_location"].status = "inferred",
              0 - 10, "micro_location_ambiguous"),
         Part(/\ s.criteria["budget"] # None
              /\ Num(s.criteria["budget"]) > 500000
              /\ s.criteria["condo_max"] \in {None, "0"},
              0 - 8, "missing_condo_max_high_budget"),
         Part(/\ s.intent = "comprar"
              /\ s.triage_fields["payment_type"].value = None,
              0 - 5, "missing_payment_type"),
         Part(ConflictPending(s), 0 - 20, "unresolved_conflict"),
         Part(s.criteria["neighborhood"] # None /\ s.criteria["city"] = None,
              0 - 10, "neighborhood_without_city"),
         Part(/\ s.criteria["budget_min"] # None
              /\ s.criteria["budget"] # None
              /\ Num(s.criteria["budget_min"]) > Num(s.criteria["budget"]),
              0 - 15, "budget_inconsistent"),
         Part(/\ s.triage_fields["micro_location"].status = "confirmed"
              /\ s.triage_fields["micro_location"].value \notin {"orla", None},
              5, "micro_location_confirmed"),
         Part(s.lead_profile.name # None, 2, "name_available"),
         Part(s.criteria["timeline"] \notin {None, "flexivel"}, 3, "timeline_specific")>>

RECURSIVE SumDelta(_, _)
SumDelta(parts, i) == IF i > Len(parts) THEN 0 ELSE parts[i].delta + SumDelta(parts, i + 1)

RECURSIVE AllReasons(_, _)
AllReasons(parts, i) ==
    IF i > Len(parts) THEN <<>> ELSE parts[i].reasons \o AllReasons(parts, i + 1)

\* No limit applied.
Unclamped(lo, x, hi) == x

Clamp(lo, x, hi) == IF x < lo THEN lo ELSE IF x > hi THEN hi ELSE x

Grade(score) ==
    IF score >= 85 THEN "A" ELSE IF score >= 70 THEN "B"
    ELSE IF score >= 50 THEN "C" ELSE "D"

compute_quality_score(s) ==
    LET parts == QualityParts(s)
        score == Clamp(0, 100 + SumDelta(parts, 1), 100)
    IN  [score |-> score, grade |-> Grade(score), reasons |-> AllReasons(parts, 1)]

(***************************************************************************)
(* quality_gate.py: the quality gate.                                      *)
(***************************************************************************)
MAX_QUALITY_GATE_TURNS == 3
QUALITY_GATE_MIN_SCORE == 70

\* The fields of a list in its order, each once, None left out.
RECURSIVE Dedup(_)
Dedup(seq) ==
    IF seq = <<>> THEN <<>>
    ELSE IF Head(seq) = None THEN Dedup(Tail(seq))
    ELSE <<Head(seq)>> \o SelectSeq(Dedup(Tail(seq)), LAMBDA x : x # Head(seq))

MissingOf(r) ==
    CASE r.tag = "missing_critical" -> r.field
      [] r.tag = "missing_condo_max_high_budget" -> "condo_max"
      [] r.tag = "missing_payment_type" -> "payment_type"
      [] OTHER -> None
AmbiguousOf(r) == IF r.tag = "micro_location_ambiguous" THEN "micro_location" ELSE None
ConflictingOf(r) ==
    CASE r.tag = "neighborhood_without_city" -> "city"
      [] r.tag = "budget_inconsistent" -> "budget"
      [] OTHER -> None
LowConfidenceOf(r) == IF r.tag = "inferred" THEN r.field ELSE None
DealbreakerOf(r) ==
    CASE r.tag = "micro_location_ambiguous" -> "micro_location"
      [] r.tag = "missing_condo_max_high_budget" -> "condo_max"
      [] r.tag = "missing_payment_type" -> "payment_type"
      [] OTHER -> None

identify_quality_gaps(s, quality) ==
    [missing_required_fields |-> Dedup([i \in DOMAIN quality.reasons |-> MissingOf(quality.reasons[i])]),
     ambiguous_fields |-> Dedup([i \in DOMAIN quality.reasons |-> AmbiguousOf(quality.reasons[i])]),
     conflicting_fields |-> Dedup([i \in DOMAIN quality.reasons |-> ConflictingOf(quality.reasons[i])]),
     low_confidence_fields |-> Dedup([i \in DOMAIN quality.reasons |-> LowConfidenceOf(quality.reasons[i])]),
     dealbreakers |-> Dedup([i \in DOMAIN quality.reasons |-> DealbreakerOf(quality.reasons[i])])]

\* A gate that never gives up on the number of its questions.
GateTurnsNever(s) == FALSE

\* quality_gate.py:51: the gate asked its questions.
GateTurnsReached(s) == s.quality_gate_turns >= MAX_QUALITY_GATE_TURNS

should_handoff(s, quality) ==
    LET gaps == identify_quality_gaps(s, quality)
    IN  \/ GateTurnsReached(s)
        \/ quality.grade \in {"A", "B"}
        \/ quality.score >= QUALITY_GATE_MIN_SCORE
        \/ Len(gaps.missing_required_fields) + Len(gaps.ambiguous_fields)
               + Len(gaps.conflicting_fields) = 0

\* The field is neither refused nor the one just asked.
Askable(s, field) ==
    /\ s.field_refusals[field] = 0
    /\ field # s.last_question_key

next_question_from_quality_gaps(s, quality) ==
    LET gaps == identify_quality_gaps(s, quality)
        asked == Range(s.asked_questions)
        fresh(seq) == FirstIn(seq, {f \in Range(seq) : Askable(s, f) /\ f \notin asked})
        again(seq) == FirstIn(seq, {f \in Range(seq) :
                                       Askable(s, f) /\ Count(s.asked_questions, f) < 2})
        low == FirstIn(gaps.low_confidence_fields,
                       {f \in Range(gaps.low_confidence_fields) :
                           /\ Askable(s, f)
                           /\ f = "city" \/ Count(s.asked_questions, f) < 2})
    IN  IF fresh(gaps.dealbreakers) # None THEN fresh(gaps.dealbreakers)
        ELSE IF fresh(SelectSeq(CRITICAL_ORDER,
                                LAMBDA f : f \in Range(gaps.missing_required_fields))) # None
        THEN fresh(SelectSeq(CRITICAL_ORDER,
                             LAMBDA f : f \in Range(gaps.missing_required_fields)))
        ELSE IF fresh(SelectSeq(gaps.missing_required_fields,
                                LAMBDA f : f \notin Range(CRITICAL_ORDER))) # None
        THEN fresh(SelectSeq(gaps.missing_required_fields,
                             LAMBDA f : f \notin Range(CRITICAL_ORDER)))
        ELSE IF again(gaps.ambiguous_fields) # None THEN again(gaps.ambiguous_fields)
        ELSE IF low # None THEN (IF low = "city" THEN "city_confirm" ELSE low)
        ELSE again(gaps.conflicting_fields)

mark_field_refusal(s, field) ==
    [s EXCEPT !.field_refusals[field] = @ + 1]

(***************************************************************************)
(* SpecDecide: one routing decision on any roster, lead, priority flag and *)
(* stored stats: load_stats, choose_agent, save_stats in one step.         *)
(***************************************************************************)
NoFile == [exists |-> FALSE, date |-> 0, agents |-> EmptyStats]
NoReq == [roster |-> <<>>, lead |-> None, priority |-> FALSE, load |-> "ok"]
NoRes == [agent |-> None, score |-> 0, strategy |-> None, fallback |-> FALSE,
          evaluated |-> 0]
NoTmp == [exists |-> FALSE]
Workers == {"w1", "w2"}
NoPending == [agent |-> None, priority |-> FALSE, stats |-> EmptyStats]

\* The stats a file may hold for a set of agents: each agent absent, or
\* present with a count and a stamp.
\* An entry with a count was stamped when the count was raised.
StatRecs == {r \in [n : 0..MaxCount, last : 0..MaxStamp] : r.n > 0 => r.last > 0}
StatsOver(ids) == UNION {[K -> StatRecs] : K \in SUBSET ids}

NoRet == [conflicts |-> <<>>, conflict_values |-> <<>>]
NoMsg == [text |-> None, extracted |-> <<>>, explicit_city |-> None, handoff |-> FALSE]
NoOut == [kind |-> None, key |-> None, agent |-> None]
NoRecords == [leads |-> <<>>, index |-> {}, events |-> <<>>]

\* llm.py at import, no API key configured: no cooldown, an empty cache.
LlmSessions == {"s1", "s2"}
NoDecided ==
    [calls |-> 0, message |-> None, summary |-> None, provider |-> None,
     source |-> None, requests |-> 0, at |-> 0]
NoLlm == [enabled |-> FALSE, LLM_PROVIDER |-> "groq", rate_limit_until |-> 0, cache |-> {}]
IdleLlm ==
    /\ llm = NoLlm
    /\ decided = [sid \in LlmSessions |-> NoDecided]

IdleSession ==
    /\ store = [sid \in SessionIds |-> NewSession]
    /\ updates = <<>>
    /\ ret = NoRet
    /\ applied = 0
    /\ msg = NoMsg
    /\ out = NoOut
    /\ persistence = NoRecords
    /\ gate_asked = [sid \in SessionIds |-> <<>>]

IdleRace ==
    /\ pc = [w \in Workers |-> "idle"]
    /\ pend = [w \in Workers |-> NoPending]
    /\ lock = "free"
    /\ tmp = NoTmp
    /\ granted = 0

InitDecide ==
    /\ today \in Days
    /\ clock = MaxStamp
    /\ req \in [roster : Rosters, lead : Leads, priority : BOOLEAN, load : LoadOutcomes]
    /\ \/ file = NoFile
       \/ \E st \in StatsOver({req.roster[i] : i \in DOMAIN req.roster}) :
              file = StatsFile(st, 0)
    /\ res = NoRes
    /\ IdleRace
    /\ IdleSession
    /\ IdleLlm

\* RoutingResult of a decision (None when the decision returns None).
Result(d) ==
    [agent |-> d.agent, score |-> d.score, strategy |-> d.strategy,
     fallback |-> d.fallback, evaluated |-> d.evaluated]

\* save_stats as one step: the temporary file is written, then renamed.
save_stats(stats, day) == StatsFile(stats, day)

\* route_lead(lead, priority), the stats file read by choose_agent.
Decide ==
    LET d == route_lead(req, load_stats(file, today), clock + 1)
    IN  /\ clock = MaxStamp
        /\ clock' = clock + 1
        /\ file' = IF d.save THEN save_stats(d.stats, today) ELSE file
        /\ res' = Result(d)
        /\ UNCHANGED <<today, req, raceVars, sessionVars, llmVars>>

NextDecide == Decide

SpecDecide == InitDecide /\ [][NextDecide]_vars

\* SpecLeftover: one routing decision on a stats file that also holds the
\* record of an agent the roster does not list (an agent taken off
\* agents.json after it was assigned leads).
Leftover == [n |-> 1, last |-> 1]

InitLeftover ==
    /\ today \in Days
    /\ clock = MaxStamp
    /\ req \in [roster : Rosters, lead : Leads, priority : BOOLEAN, load : {"ok"}]
    /\ \E st \in StatsOver({req.roster[i] : i \in DOMAIN req.roster}) :
           \E gone \in AgentIds \ {req.roster[i] : i \in DOMAIN req.roster} :
               file = StatsFile((gone :> Leftover) @@ st, 0)
    /\ res = NoRes
    /\ IdleRace
    /\ IdleSession
    /\ IdleLlm

SpecLeftover == InitLeftover /\ [][NextDecide]_vars

(***************************************************************************)
(* SpecRace: two workers route leads at the same time on one roster.  A    *)
(* worker reads the stats file and decides on its own copy (Load), then    *)
(* saves that copy under _stats_lock: the temporary file is written        *)
(* (SaveBegin, SaveWrite), then renamed over the stats file (SaveEnd).  The lock is   *)
(* taken inside save_stats only (router.py:172).                           *)
(***************************************************************************)
RaceRoster == <<"match", "gen">>

RaceLeads ==
    {l \in Leads : /\ l.intent = "comprar"
                   /\ l.neighborhood \in {"Manaira", "Centro"}
                   /\ l.budget = 0}

InitRace ==
    /\ file = NoFile
    /\ today = 0
    /\ clock = 0
    /\ req = NoReq
    /\ res = NoRes
    /\ IdleRace
    /\ IdleSession
    /\ IdleLlm

\* router.py:381-421: load_stats, scoring, the choice and the increment, all
\* on the worker's own dict.  A call that returns None saves nothing.
Load(w, lead, priority) ==
    LET d == choose_agent(RaceRoster, lead, load_stats(file, today), priority, clock + 1)
    IN  /\ pc[w] = "idle"
        /\ clock < MaxAssign
        /\ clock' = clock + 1
        /\ pend' = [pend EXCEPT ![w] = [agent |-> d.agent, priority |-> priority,
                                        stats |-> d.stats]]
        /\ pc' = [pc EXCEPT ![w] = IF d.save THEN "save" ELSE "idle"]
        /\ UNCHANGED <<file, today, seqVars, lock, tmp, granted, sessionVars, llmVars>>

\* Writing the content over the stats file itself.
WriteInPlace(f, t, content) == [file |-> content, tmp |-> t]

\* open(temp_path, "w") and json.dump: the content goes to the temporary
\* file, the stats file is not touched.
WriteTemp(f, t, content) == [file |-> f, tmp |-> content]

\* save_stats, router.py:172-187: take the lock, open the temporary file and
\* start writing it.
SaveBegin(w) ==
    LET wr == WriteTemp(file, tmp, Truncated(StatsFile(pend[w].stats, today)))
    IN  /\ pc[w] = "save"
        /\ lock = "free"
        /\ lock' = w
        /\ file' = wr.file
        /\ tmp' = wr.tmp
        /\ pc' = [pc EXCEPT ![w] = "write"]
        /\ UNCHANGED <<today, clock, seqVars, pend, granted, sessionVars, llmVars>>

\* save_stats, router.py:187-188: json.dump ends and the file is closed.
SaveWrite(w) ==
    LET wr == WriteTemp(file, tmp, StatsFile(pend[w].stats, today))
    IN  /\ pc[w] = "write"
        /\ lock = w
        /\ file' = wr.file
        /\ tmp' = wr.tmp
        /\ pc' = [pc EXCEPT ![w] = "rename"]
        /\ UNCHANGED <<today, clock, seqVars, pend, lock, granted, sessionVars, llmVars>>

\* save_stats, router.py:191-195: rename over the stats file, release the
\* lock; choose_agent then returns the RoutingResult.
SaveEnd(w) ==
    /\ pc[w] = "rename"
    /\ lock = w
    /\ file' = tmp
    /\ tmp' = NoTmp
    /\ lock' = "free"
    /\ granted' = granted + 1
    /\ pc' = [pc EXCEPT ![w] = "idle"]
    /\ UNCHANGED <<today, clock, seqVars, pend, sessionVars, llmVars>>

NextRace ==
    \/ \E w \in Workers, lead \in RaceLeads, priority \in BOOLEAN : Load(w, lead, priority)
    \/ \E w \in Workers : SaveBegin(w)
    \/ \E w \in Workers : SaveWrite(w)
    \/ \E w \in Workers : SaveEnd(w)

SpecRace == InitRace /\ [][NextRace]_vars

(***************************************************************************)
(* SpecApply: apply_updates on a session holding any stored fields, for    *)
(* any batch of one or two updates; the same batch may be applied again.   *)
(***************************************************************************)
\* The updates of the model.
ApplyEntries ==
    {Upd("city", v, st) : v \in {"Joao Pessoa", "Recife"}, st \in Statuses}
    \cup {Upd("city_confirm", "Joao Pessoa", "confirmed"), Upd("city", None, "confirmed")}
    \cup {Upd("budget", v, st) : v \in {"500000", "700k", "abc"}, st \in {"confirmed", "override"}}
    \cup {Upd("budget", "700k", "inferred"), Upd("budget_max", "700000", "confirmed")}
    \cup {Upd("micro_location", v, st) : v \in {"orla", "beira-mar"}, st \in {"confirmed", "inferred"}}
    \cup {Upd("intent", v, st) : v \in {"comprar", "alugar"}, st \in {"confirmed", "override"}}
    \cup {Upd("lead_name", "Bia", "confirmed"), Upd("phone", "222", "confirmed"),
          Upd("email", "b@x", "confirmed")}

\* The second update of a batch of two.
ApplySeconds ==
    {Upd("city", "Recife", "confirmed"), Upd("budget_max", "700000", "confirmed"),
     Upd("budget", "500000", "confirmed"), Upd("micro_location", "orla", "confirmed"),
     Upd("intent", "alugar", "confirmed"), Upd("lead_name", "Bia", "confirmed")}

\* A dict of updates in its order: the keys are distinct.
Batches ==
    {<<>>} \cup {<<e>> : e \in ApplyEntries}
    \cup {<<p[1], p[2]>> : p \in {q \in ApplyEntries \X ApplySeconds : q[1].key # q[2].key}}

\* What a field holds after earlier updates: nothing, or a value as
\* set_criterion stores it, with the status of the update.
StoredField(values, statuses) ==
    {NoField} \cup [value : values, status : statuses]

\* The sessions the batch is applied to: each field of the model as earlier
\* updates may have left it.
StoredSessions ==
    {[NewSession EXCEPT
        !.intent = in,
        !.lead_profile = [name |-> nm, phone |-> ct.phone, email |-> ct.email],
        !.triage_fields = [@ EXCEPT !["city"] = c, !["budget"] = b, !["micro_location"] = m],
        !.criteria = [@ EXCEPT !["city"] = c.value, !["budget"] = b.value,
                               !["micro_location"] = m.value],
        !.criteria_status = [@ EXCEPT !["city"] = c.status, !["budget"] = b.status,
                                      !["micro_location"] = m.status]] :
        in \in {None, "comprar", "alugar", "investir"},
        nm \in {None, "Ana"},
        ct \in {[phone |-> None, email |-> None], [phone |-> "111", email |-> "a@x"]},
        c \in StoredField({"Joao Pessoa", "Recife"}, Statuses),
        b \in StoredField({"500000", "700000"}, {"confirmed", "inferred"}),
        m \in StoredField({"beira-mar (praia)"}, {"confirmed", "inferred"})}

IdleRouter ==
    /\ file = NoFile
    /\ today = 0
    /\ clock = 0
    /\ req = NoReq
    /\ res = NoRes
    /\ IdleRace

InitApply ==
    /\ store \in [SessionIds -> StoredSessions]
    /\ updates \in Batches
    /\ ret = NoRet
    /\ applied = 0
    /\ msg = NoMsg
    /\ out = NoOut
    /\ persistence = NoRecords
    /\ gate_asked = [sid \in SessionIds |-> <<>>]
    /\ IdleRouter
    /\ IdleLlm

\* state.apply_updates(updates) on the session sid.
Apply(sid) ==
    LET r == apply_updates(store[sid], updates)
    IN  /\ applied < MaxApply
        /\ applied' = applied + 1
        /\ store' = [store EXCEPT ![sid] = r.s]
        /\ ret' = [conflicts |-> r.conflicts, conflict_values |-> r.conflict_values]
        /\ UNCHANGED <<updates, msg, out, persistence, gate_asked,
                       routerVars, seqVars, raceVars, llmVars>>

NextApply == \E sid \in SessionIds : Apply(sid)

SpecApply == InitApply /\ [][NextApply]_vars

(***************************************************************************)
(* scoring.py and sla.py: the lead score and the service level.            *)
(***************************************************************************)
Points(cond, n) == IF cond THEN n ELSE 0

TimelinePoints(tl) ==
    CASE tl = "30d" -> 25
      [] tl = "3m" -> 20
      [] tl = "6m" -> 10
      [] tl = "12m" -> 5
      [] OTHER -> 0

\* intent_stage is "unknown" in every session: it gives no points.
compute_lead_score(s) ==
    LET c == s.criteria
        raw == Points(c["budget"] # None /\ Num(c["budget"]) # 0, 20)
               + Points(c["city"] # None, 10)
               + Points(c["neighborhood"] # None, 15)
               + Points(c["micro_location"] \notin {None, "orla"}, 10)
               + Points(c["bedrooms"] # None /\ Num(c["bedrooms"]) >= 3, 10)
               + Points(c["parking"] # None /\ Num(c["parking"]) >= 2, 5)
               + Points(s.intent \in {"comprar", "alugar"}, 5)
               + TimelinePoints(c["timeline"])
        score == Clamp(0, raw, 100)
    IN  [temperature |-> IF score >= 70 THEN "hot" ELSE IF score >= 40 THEN "warm" ELSE "cold",
         score |-> score]

HOT_THRESHOLD == 80
WARM_THRESHOLD == 50

classify_lead(lead_score) ==
    IF lead_score >= HOT_THRESHOLD THEN "HOT"
    ELSE IF lead_score >= WARM_THRESHOLD THEN "WARM"
    ELSE "COLD"

compute_sla_action(lead_class, quality_grade, s) ==
    CASE lead_class = "HOT" ->
           [sla_type |-> "immediate", priority |-> TRUE, message_template |-> "hot"]
      [] lead_class = "WARM" ->
           [sla_type |-> "normal", priority |-> FALSE, message_template |-> "warm"]
      [] OTHER ->
           IF quality_grade \in {"A", "B"}
           THEN [sla_type |-> "normal", priority |-> FALSE, message_template |-> "cold_handoff"]
           ELSE [sla_type |-> "nurture", priority |-> FALSE, message_template |-> "cold_nurture"]

\* The test of the stored flag alone, whatever the class of the lead.
EmitUnlessEmitted(s, lead_class) == ~s.hot_lead_emitted

should_emit_hot_event(s, lead_class) == lead_class = "HOT" /\ ~s.hot_lead_emitted

(***************************************************************************)
(* controller.py: handle_message in triage mode.  A message is what the    *)
(* handler reads of it: its text, the updates the decision and the regex   *)
(* enrichment extract from it, the city resolve_city finds in it, and the  *)
(* decision's handoff flag.                                                *)
(***************************************************************************)
\* The texts of the model and what the handler finds in them.
Texts == {"hmm", "ok", "nao sei", "quero desconto", "oi, quero comprar", "resposta"}

HasNegotiation(text) == text = "quero desconto"
HasGreeting(text) == text = "oi, quero comprar"
HasIntentKeyword(text) == text = "oi, quero comprar"
detect_field_refusal(text) == text = "nao sei"

\* str.title() of the stripped, lowered text.
Title(text) ==
    CASE text = "hmm" -> "Hmm"
      [] text = "ok" -> "Ok"
      [] text = "nao sei" -> "Nao Sei"
      [] text = "oi, quero comprar" -> "Oi, Quero Comprar"
      [] text = "resposta" -> "Resposta"
      [] OTHER -> text

\* Any name passes.
NameAlwaysValid(name) == TRUE

\* A name of three letters or more that is no generic word.
_is_valid_name(name) == name \notin {None, "Ok"}

\* Any message to a session that is over starts it again.
ResetWhenCompleted(s, text) == s.completed

\* The session is over and the message greets and names an intent (the
\* messages of the model arrive within the three hours of the idle window).
_should_reset_session(s, text) ==
    s.completed /\ HasGreeting(text) /\ HasIntentKeyword(text)

\* Short replies: a name after the name question, an intent word after the
\* intent question (no text of the model is a yes or a no to a boolean key,
\* or holds a word of an intent stage; "ok" is a yes).
_short_reply_updates(text, s) ==
    LET lk == s.last_question_key
    IN  IF lk = None THEN <<>>
        ELSE IF lk = "lead_name" THEN <<Upd("lead_name", Title(text), "confirmed")>>
        ELSE IF lk \in {"intent", "operation"} /\ text = "oi, quero comprar"
        THEN <<Upd("intent", "comprar", "confirmed")>>
        ELSE IF lk \in {"intent", "operation"} /\ text = "ok" /\ s.intent # None
        THEN <<Upd("intent", s.intent, "confirmed")>>
        ELSE <<>>

\* controller.py:297-302: an extracted neighbourhood counts as confirmed.
ConfirmNeighborhood(d) ==
    [i \in DOMAIN d |-> IF d[i].key = "neighborhood"
                        THEN [d[i] EXCEPT !.status = "confirmed"] ELSE d[i]]

\* history.append: only its last three entries are ever read.
HistAppend(h, x) ==
    LET all == Append(h, x)
    IN  IF Len(all) > 3 THEN SubSeq(all, Len(all) - 2, Len(all)) ELSE all

\* The roster load_agents reads from data/agents.json.
TurnRoster == <<"match", "gen">>

\* What the router reads of the session.
LeadOf(s) ==
    [intent |-> s.intent,
     neighborhood |-> s.criteria["neighborhood"],
     micro_location |-> s.criteria["micro_location"],
     budget |-> Num(s.criteria["budget"]),
     bedrooms |-> Num(s.criteria["bedrooms"]),
     pet |-> FALSE,
     temperature |-> s.lead_score.temperature]

NoUpdates == <<>>

\* What a call of handle_message leaves: the session, the reply, the
\* updates applied and their conflicts, the stats file, the records
\* written.
Reply(s, kind, key, upd, r, f, p, agent) ==
    [s |-> s, out |-> [kind |-> kind, key |-> key, agent |-> agent],
     updates |-> upd, ret |-> r, file |-> f, persistence |-> p]

Ask(s, key, entry) ==
    [s EXCEPT !.last_question_key = key,
              !.asked_questions = IF key = None THEN @ ELSE AppendNew(@, key),
              !.history = HistAppend(@, entry)]

\* controller.py:434-539: classification, routing, completion, the records.
Complete(s, upd, r, f, p, day, now) ==
    LET lead_class == classify_lead(s.lead_score.score)
        quality == compute_quality_score(s)
        sla_action == compute_sla_action(lead_class, quality.grade, s)
        s1 == [s EXCEPT !.lead_class = lead_class, !.sla = sla_action.sla_type]
        d == choose_agent(TurnRoster, LeadOf(s1), load_stats(f, day),
                          sla_action.priority, now)
        emit == should_emit_hot_event(s1, lead_class)
        s2 == [s1 EXCEPT !.completed = TRUE,
                         !.hot_lead_emitted = IF emit THEN TRUE ELSE @,
                         !.history = HistAppend(@, "final")]
        p1 == [p EXCEPT !.leads = @ \o <<[kind |-> "state", lead_class |-> None,
                                           sla |-> None, agent |-> None],
                                          [kind |-> "lead", lead_class |-> lead_class,
                                           sla |-> sla_action.sla_type, agent |-> d.agent]>>,
                        !.index = @ \cup {s.lead_profile.name},
                        !.events = IF emit THEN Append(@, "HOT_LEAD") ELSE @]
    IN  Reply(s2, "completed", None, upd, r,
              IF d.save THEN save_stats(d.stats, day) ELSE f, p1, d.agent)

\* controller.py:350-422: the triage branch before completion.
Triage(s, text, upd, r, f, p, day, now) ==
    LET ret_ == [conflicts |-> r.conflicts, conflict_values |-> r.conflict_values]
        missing == missing_critical_fields(s)
        next_key == _avoid_repeat_question(s, next_best_question_key(s))
        quality == compute_quality_score(s)
        sr == IF detect_field_refusal(text) /\ s.last_question_key # None
              THEN mark_field_refusal(s, s.last_question_key) ELSE s
        gap_key == next_question_from_quality_gaps(sr, quality)
    IN  IF r.conflicts # <<>>
        THEN Reply(Ask(s, r.conflicts[1], "conflict_question"), "conflict",
                   r.conflicts[1], upd, ret_, f, p, None)
        ELSE IF missing # <<>>
        THEN Reply(Ask(s, next_key, "question"), "question", next_key, upd, ret_, f, p, None)
        ELSE IF ~should_handoff(sr, quality) /\ gap_key # None
        THEN Reply(Ask([sr EXCEPT !.quality_gate_turns = @ + 1], gap_key, "question"),
                   "gate_question", gap_key, upd, ret_, f, p, None)
        ELSE IF ~_is_valid_name(sr.lead_profile.name)
        THEN Reply(Ask(sr, "lead_name", "question"), "name_question", "lead_name",
                   upd, ret_, f, p, None)
        ELSE Complete(sr, upd, ret_, f, p, day, now)

\* A reset that clears the completed flag and keeps the rest of the session.
ClearCompleted(s0) == [s0 EXCEPT !.completed = FALSE]

\* The reset of handle_message: store.reset, store.get, then the lead
\* profile of the session that was dropped is put back.
reset_session(s0) == [NewSession EXCEPT !.lead_profile = s0.lead_profile]

\* A handler without the early return for a session that is completed: the
\* message of a completed session goes through the triage again.
HandleCompletedAgain(s0, m, f, p, day, now) ==
    LET s1 == IF _should_reset_session(s0, m.text)
              THEN reset_session(s0) ELSE s0
        s2 == [s1 EXCEPT !.message_index = @ + 1]
        s3 == [s2 EXCEPT !.history = HistAppend(@, "user")]
        merged == DictUpdate(ConfirmNeighborhood(m.extracted),
                             _short_reply_updates(m.text, s3))
        upd == IF m.explicit_city # None
               THEN DictSet(merged, Upd("city", m.explicit_city, "override"))
               ELSE merged
        r == apply_updates(s3, upd)
        s4 == [r.s EXCEPT !.lead_score = compute_lead_score(r.s)]
    IN  IF HasNegotiation(m.text)
        THEN Reply([s2 EXCEPT !.human_handoff = TRUE], "human_handoff", None,
                   NoUpdates, NoRet, f, p, None)
        ELSE IF m.handoff
        THEN Reply([s4 EXCEPT !.human_handoff = TRUE], "human_handoff", None, upd,
                   [conflicts |-> r.conflicts, conflict_values |-> r.conflict_values],
                   f, p, None)
        ELSE Triage(s4, m.text, upd, r, f, p, day, now)

\* handle_message(session_id, message) with TRIAGE_ONLY set and the LLM in
\* use; the caller passes no name and the text holds no override phrase.
handle_message(s0, m, f, p, day, now) ==
    LET s1 == IF _should_reset_session(s0, m.text)
              THEN reset_session(s0) ELSE s0
        s2 == [s1 EXCEPT !.message_index = @ + 1]
        s3 == [s2 EXCEPT !.history = HistAppend(@, "user")]
        merged == DictUpdate(ConfirmNeighborhood(m.extracted),
                             _short_reply_updates(m.text, s3))
        upd == IF m.explicit_city # None
               THEN DictSet(merged, Upd("city", m.explicit_city, "override"))
               ELSE merged
        r == apply_updates(s3, upd)
        s4 == [r.s EXCEPT !.lead_score = compute_lead_score(r.s)]
    IN  IF s1.completed
        THEN Reply(s1, "concluded", None, NoUpdates, NoRet, f, p, None)
        ELSE IF HasNegotiation(m.text)
        THEN Reply([s2 EXCEPT !.human_handoff = TRUE], "human_handoff", None,
                   NoUpdates, NoRet, f, p, None)
        ELSE IF m.handoff
        THEN Reply([s4 EXCEPT !.human_handoff = TRUE], "human_handoff", None, upd,
                   [conflicts |-> r.conflicts, conflict_values |-> r.conflict_values],
                   f, p, None)
        ELSE Triage(s4, m.text, upd, r, f, p, day, now)

(***************************************************************************)
(* SpecTurn: one session from its first message on.  The first message     *)
(* carries any of the opening batches; a later message is silent, a        *)
(* refusal, an answer to the question just asked, a contradiction of the   *)
(* budget, a change of city, a request for a discount or for a person, or  *)
(* a greeting that starts over.                                            *)
(***************************************************************************)
Message(text, extracted, explicit_city, handoff) ==
    [text |-> text, extracted |-> extracted, explicit_city |-> explicit_city,
     handoff |-> handoff]

\* The value the user gives when answering the question on a key.
AnswerValue(key) ==
    CASE key = "intent" -> "comprar"
      [] key \in {"city", "city_confirm"} -> "Joao Pessoa"
      [] key = "neighborhood" -> "Manaira"
      [] key = "property_type" -> "apartamento"
      [] key = "bedrooms" -> "3"
      [] key = "parking" -> "1"
      [] key = "budget" -> "900000"
      [] key = "timeline" -> "6 meses"
      [] key = "micro_location" -> "beira-mar"
      [] key = "condo_max" -> "800"
      [] key = "payment_type" -> "financiamento"
      [] OTHER -> "researching"

\* An opening batch: the critical fields but the absent ones, each with the
\* status given, and the name when given.
Opening(it, st, absent, name) ==
    SelectSeq(<<Upd("intent", it, "confirmed"),
                Upd("city", "Joao Pessoa", st),
                Upd("neighborhood", "Manaira", st),
                Upd("property_type", "apartamento", st),
                Upd("bedrooms", "3", st),
                Upd("parking", "1", st),
                Upd("budget", "900000", st),
                Upd("timeline", "6 meses", st),
                Upd("lead_name", name, "confirmed")>>,
              LAMBDA e : e.key \notin absent /\ e.value # None)

\* The opening of a hot lead: every critical field confirmed, three
\* bedrooms, three months.
HotOpening(name) ==
    SelectSeq(<<Upd("intent", "comprar", "confirmed"),
                Upd("city", "Joao Pessoa", "confirmed"),
                Upd("neighborhood", "Manaira", "confirmed"),
                Upd("property_type", "apartamento", "confirmed"),
                Upd("bedrooms", "3", "confirmed"),
                Upd("parking", "1", "confirmed"),
                Upd("budget", "900000", "confirmed"),
                Upd("timeline", "3 meses", "confirmed"),
                Upd("lead_name", name, "confirmed")>>,
              LAMBDA e : e.value # None)

\* The opening of a cold lead: an investor in no hurry, one bedroom, most
\* fields inferred.
ColdOpening ==
    <<Upd("intent", "investir", "confirmed"),
      Upd("city", "Joao Pessoa", "confirmed"),
      Upd("neighborhood", "Manaira", "confirmed"),
      Upd("property_type", "apartamento", "inferred"),
      Upd("bedrooms", "1", "inferred"),
      Upd("parking", "1", "inferred"),
      Upd("budget", "900000", "inferred"),
      Upd("timeline", "sem pressa", "inferred"),
      Upd("lead_name", "Ana Souza", "confirmed")>>

\* The opening of a tenant whose lowest budget is above the budget: the
\* city confirmed, the other fields inferred.
InconsistentOpening ==
    <<Upd("intent", "alugar", "confirmed"),
      Upd("city", "Joao Pessoa", "confirmed"),
      Upd("neighborhood", "Manaira", "confirmed"),
      Upd("property_type", "apartamento", "inferred"),
      Upd("bedrooms", "3", "inferred"),
      Upd("parking", "1", "inferred"),
      Upd("budget", "400000", "inferred"),
      Upd("budget_min", "500000", "inferred"),
      Upd("timeline", "6 meses", "inferred"),
      Upd("lead_name", "Ana Souza", "confirmed")>>

Openings ==
    {Opening(it, st, absent, name) :
        it \in {"comprar", "alugar"},
        st \in {"confirmed", "inferred"},
        absent \in {{}, {"parking", "timeline"}},
        name \in {None, "Ana Souza"}}
    \cup {HotOpening(name) : name \in {None, "Ana Souza"}}
    \cup {ColdOpening, InconsistentOpening}

\* The messages a session may receive in its state.
Messages(s) ==
    {Message(text, <<>>, None, FALSE) : text \in {"hmm", "nao sei", "quero desconto"}}
    \cup {Message("oi, quero comprar", <<Upd("intent", "comprar", "confirmed")>>, None, FALSE),
          Message("resposta", <<Upd("budget", "700000", "confirmed")>>, None, FALSE),
          Message("resposta", <<>>, "Recife", FALSE)}
    \cup {Message("resposta", <<Upd(s.last_question_key, AnswerValue(s.last_question_key), st)>>,
                  None, FALSE) :
              st \in IF s.last_question_key \in {None, "lead_name"} THEN {}
                     ELSE {"confirmed", "inferred"}}
    \cup {Message("resposta", o, None, FALSE) :
              o \in IF s.message_index = 0 THEN Openings ELSE {}}
    \cup {Message("oi, quero comprar", o, None, FALSE) :
              o \in IF s.completed THEN {HotOpening(None)} ELSE {}}
    \cup {Message(text, <<>>, None, FALSE) :
              text \in IF s.last_question_key = "lead_name" THEN {"ok"} ELSE {}}

InitTurn ==
    /\ IdleSession
    /\ IdleRouter
    /\ IdleLlm

\* handle_message(sid, message) as one step.
Turn(sid, m) ==
    LET R == handle_message(store[sid], m, file, persistence, today, clock + 1)
    IN  /\ applied < MaxTurns
        /\ applied' = applied + 1
        /\ msg' = m
        /\ out' = R.out
        /\ updates' = R.updates
        /\ ret' = R.ret
        /\ store' = [store EXCEPT ![sid] = R.s]
        /\ file' = R.file
        /\ persistence' = R.persistence
        /\ gate_asked' = [gate_asked EXCEPT ![sid] =
                              LET since == IF _should_reset_session(store[sid], m.text)
                                           THEN <<>> ELSE @
                              IN  IF out'.kind = "gate_question"
                                  THEN Append(since, out'.key) ELSE since]
        /\ clock' = IF R.out.kind = "completed" THEN clock + 1 ELSE clock
        /\ UNCHANGED <<today, seqVars, raceVars, llmVars>>

NextTurn == \E sid \in SessionIds : \E m \in Messages(store[sid]) : Turn(sid, m)

SpecTurn == InitTurn /\ [][NextTurn]_vars

\* SpecHandoff: the turns of SpecTurn and, once the lead has confirmed
\* another budget, a message that contradicts it and asks for a person: the
\* decision carries the budget heard and sets its handoff flag.
HandoffMessages(s) ==
    IF FieldConflict(s, "budget", "700000")
    THEN {Message("resposta", <<Upd("budget", "700000", "confirmed")>>, None, TRUE)}
    ELSE {}

NextHandoff ==
    \E sid \in SessionIds :
        \E m \in Messages(store[sid]) \cup HandoffMessages(store[sid]) : Turn(sid, m)

SpecHandoff == InitTurn /\ [][NextHandoff]_vars

(***************************************************************************)
(* llm.py: llm_decide on the state of the module, which every session      *)
(* shares.  SpecShared: calls of llm_decide for two sessions, as           *)
(* agent.decide makes them for each message, and the time between them in  *)
(* steps of 60 seconds.                                                    *)
(***************************************************************************)
_CACHE_TTL == 300

\* The messages, and the summaries of the state of a session that go into
\* the key of the cache; a summary holds no session identifier.
LlmTexts == {"oi", "quero comprar"}
Summaries == {"empty", "comprar"}

\* What call_llm does when it is called: it answers, it fails on a rate
\* limit of the provider, or it fails otherwise.
Providers == {"ok", "rate_limit", "error"}

\* The values of LLM_PROVIDER the model tells apart: a provider reached
\* through the OpenAI client, and Gemini, reached through its own wrapper.
LlmProviders == {"groq", "gemini"}

\* The max_retries llm_decide passes to call_llm.
max_retries == 3

\* call_llm under the provider kind when the provider behaves as outcome:
\* the type of the LLMServiceError it raises ("ok" when it returns) and the
\* number of requests it sent. The Gemini wrapper repeats the request after
\* any failure and raises every failure with the type UNKNOWN; the OpenAI
\* path repeats it at once after a rate limit and raises the normalised type.
call_llm(kind, outcome) ==
    IF outcome = "ok" THEN [type |-> "ok", requests |-> 1]
    ELSE IF kind = "gemini" THEN [type |-> "UNKNOWN", requests |-> max_retries]
    ELSE IF outcome = "rate_limit"
    THEN [type |-> "RATE_LIMIT_RPM", requests |-> max_retries]
    ELSE [type |-> "UNKNOWN", requests |-> 1]

\* The cooldown llm_decide sets for the type of an LLMServiceError (0: none).
cooldown(type) == IF type = "RATE_LIMIT_RPM" THEN 60 ELSE 0

\* llm_decide without its two except clauses: a failure of call_llm leaves
\* the call without a decision.
LlmDecideUncaught(l, now, message, summary, provider) ==
    LET key == <<message, summary>>
        hit == {e \in l.cache : e.key = key /\ now - e.at < _CACHE_TTL}
        r   == call_llm(l.LLM_PROVIDER, provider)
    IN  IF ~l.enabled THEN [llm |-> l, source |-> "fallback", requests |-> 0]
        ELSE IF now < l.rate_limit_until
        THEN [llm |-> l, source |-> "fallback", requests |-> 0]
        ELSE IF hit # {} THEN [llm |-> l, source |-> "cache", requests |-> 0]
        ELSE IF r.type = "ok"
        THEN [llm |-> [l EXCEPT !.cache = {e \in @ : e.key # key}
                                               \cup {[key |-> key, at |-> now]}],
              source |-> "llm", requests |-> r.requests]
        ELSE [llm |-> l, source |-> "raised", requests |-> r.requests]

\* llm_decide with the test of _is_rate_limited left out.
LlmDecideUnlimited(l, now, message, summary, provider) ==
    LET key == <<message, summary>>
        hit == {e \in l.cache : e.key = key /\ now - e.at < _CACHE_TTL}
        r   == call_llm(l.LLM_PROVIDER, provider)
    IN  IF ~l.enabled THEN [llm |-> l, source |-> "fallback", requests |-> 0]
        ELSE IF hit # {} THEN [llm |-> l, source |-> "cache", requests |-> 0]
        ELSE IF r.type = "ok"
        THEN [llm |-> [l EXCEPT !.cache = {e \in @ : e.key # key}
                                               \cup {[key |-> key, at |-> now]}],
              source |-> "llm", requests |-> r.requests]
        ELSE [llm |-> IF cooldown(r.type) > 0
                      THEN [l EXCEPT !.rate_limit_until = now + cooldown(r.type)]
                      ELSE l,
              source |-> "fallback", requests |-> r.requests]

\* llm_decide(message, state_summary) at the time now: the module state it
\* leaves, where the decision came from and the requests sent to the
\* provider.
llm_decide(l, now, message, summary, provider) ==
    LET key == <<message, summary>>
        hit == {e \in l.cache : e.key = key /\ now - e.at < _CACHE_TTL}
        r   == call_llm(l.LLM_PROVIDER, provider)
    IN  IF ~l.enabled THEN [llm |-> l, source |-> "fallback", requests |-> 0]
        ELSE IF now < l.rate_limit_until
        THEN [llm |-> l, source |-> "fallback", requests |-> 0]
        ELSE IF hit # {} THEN [llm |-> l, source |-> "cache", requests |-> 0]
        ELSE IF r.type = "ok"
        THEN [llm |-> [l EXCEPT !.cache = {e \in @ : e.key # key}
                                               \cup {[key |-> key, at |-> now]}],
              source |-> "llm", requests |-> r.requests]
        ELSE [llm |-> IF cooldown(r.type) > 0
                      THEN [l EXCEPT !.rate_limit_until = now + cooldown(r.type)]
                      ELSE l,
              source |-> "fallback", requests |-> r.requests]

InitShared ==
    /\ llm \in {[NoLlm EXCEPT !.enabled = e, !.LLM_PROVIDER = k] :
                   e \in BOOLEAN, k \in LlmProviders}
    /\ decided = [sid \in LlmSessions |-> NoDecided]
    /\ IdleSession
    /\ IdleRouter

\* One call of llm_decide for the session sid.
LlmDecide(sid) ==
    \E message \in LlmTexts, summary \in Summaries, provider \in Providers :
        LET r == llm_decide(llm, clock, message, summary, provider)
        IN  /\ decided[sid].calls < MaxApply
            /\ llm' = r.llm
            /\ decided' = [decided EXCEPT ![sid] =
                              [calls |-> @.calls + 1, message |-> message,
                               summary |-> summary, provider |-> provider,
                               source |-> r.source, requests |-> r.requests,
                               at |-> clock]]
            /\ UNCHANGED <<routerVars, seqVars, raceVars, sessionVars>>

\* Sixty seconds pass.
Wait ==
    /\ clock < 60 * MaxStamp
    /\ clock' = clock + 60
    /\ UNCHANGED <<file, today, seqVars, raceVars, sessionVars, llmVars>>

NextShared == Wait \/ \E sid \in LlmSessions : LlmDecide(sid)

SpecShared == InitShared /\ [][NextShared]_vars

\* The calls of llm_decide made for the turns of one session.
NextLlm == Wait \/ LlmDecide("s1")

SpecLlm == InitShared /\ [][NextLlm]_vars

(***************************************************************************)
(* Claims on the router.                                                   *)
(***************************************************************************)
RECURSIVE SumCounts(_, _)
SumCounts(stats, ids) ==
    IF ids = {} THEN 0
    ELSE LET id == CHOOSE x \in ids : TRUE
         IN  stats[id].n + SumCounts(stats, ids \ {id})

\* assigned_today as the stats file stores it.
Stored(f, id) == StatsGet(f.agents, id).n

\* The stats choose_agent works on: those loaded, cut to the roster.
Seen(f, roster) ==
    LET loaded == load_stats(f, today)
    IN  [k \in DOMAIN loaded \cap {roster[i] : i \in DOMAIN roster} |-> loaded[k]]

\* The agent's coverage list is non-empty, holds no wildcard and not the
\* lead's neighbourhood, and the agent is no generalist.
CoverageExcludes(id, lead) ==
    /\ lead.neighborhood # None
    /\ Agent(id).coverage_neighborhoods # {}
    /\ "*" \notin Agent(id).coverage_neighborhoods
    /\ "generalista" \notin Agent(id).specialties
    /\ \A n \in Agent(id).coverage_neighborhoods : Lower(n) # Lower(lead.neighborhood)

\* C1 (refuted by the code): a routing decision without priority never
\* stores, for the agent it returns, a counter above that agent's daily
\* capacity, under any interleaving of the workers; this follows from the
\* claim that a counter exceeds the capacity only when every assignment to
\* the agent had priority.
C1_CapacitySafety ==
    [][\A w \in Workers :
          (pc[w] = "rename" /\ pc'[w] = "idle" /\ ~pend[w].priority)
              => Stored(file', pend[w].agent) <= Agent(pend[w].agent).daily_capacity]_vars

C5_CapacityExcluded ==
    [][(res'.agent # None /\ ~req.priority)
           => StatsGet(Seen(file, req.roster), res'.agent).n
                  < Agent(res'.agent).daily_capacity]_vars

\* C6 (refuted by the code): no increment is lost; once every call has
\* returned, the stored counters sum to the number of calls that returned an
\* agent (the file starts empty).
C6_NoLostIncrement ==
    (\A w \in Workers : pc[w] = "idle")
        => SumCounts(file.agents, DOMAIN file.agents) = granted

(***************************************************************************)
(* Claims on apply_updates.                                                *)
(***************************************************************************)
\* The update at place i of the batch is the only one for its field.
Single(i) ==
    \A j \in DOMAIN updates :
        _apply_alias(updates[j].key) = _apply_alias(updates[i].key) => j = i

\* The field the update at place i is for, and the value it carries after
\* normalisation.
KeyOf(i) == _apply_alias(updates[i].key)
NewOf(i) == NormalizeValue(KeyOf(i), updates[i].value)

\* C2: when a field is stored as confirmed with value A, applying an update
\* of status confirmed whose value B (after normalisation) is not None and
\* differs from A reports the field in conflicts with the detail
\* {previous: A, new: B} and leaves the stored field and criterion as they
\* were.
C2_ConfirmedConflict ==
    [][\A sid \in SessionIds, i \in DOMAIN updates :
          (/\ applied' = applied + 1
           /\ KeyOf(i) \in TriageKeys
           /\ Single(i)
           /\ updates[i].status = "confirmed"
           /\ store[sid].triage_fields[KeyOf(i)].status = "confirmed"
           /\ NewOf(i) \notin {None, store[sid].triage_fields[KeyOf(i)].value})
          => /\ \E n \in DOMAIN ret'.conflicts : ret'.conflicts[n] = KeyOf(i)
             /\ KeyOf(i) \in DOMAIN ret'.conflict_values
             /\ ret'.conflict_values[KeyOf(i)] =
                    [previous |-> store[sid].triage_fields[KeyOf(i)].value,
                     new |-> NewOf(i)]
             /\ store'[sid].triage_fields[KeyOf(i)] = store[sid].triage_fields[KeyOf(i)]
             /\ store'[sid].criteria[KeyOf(i)] = store[sid].criteria[KeyOf(i)]]_vars

\* C2 witness: a batch was applied, one of its updates had status confirmed
\* and a value other than the confirmed one stored, and its field came back
\* as a conflict with the stored value kept.
C2_Witness ==
    /\ applied = 1
    /\ \E sid \in SessionIds, i \in DOMAIN updates :
          /\ KeyOf(i) \in TriageKeys
          /\ updates[i].status = "confirmed"
          /\ KeyOf(i) \in DOMAIN ret.conflict_values
          /\ ret.conflict_values[KeyOf(i)].new = NewOf(i)
          /\ store[sid].triage_fields[KeyOf(i)].status = "confirmed"
          /\ store[sid].triage_fields[KeyOf(i)].value = ret.conflict_values[KeyOf(i)].previous
          /\ store[sid].triage_fields[KeyOf(i)].value # NewOf(i)

\* C3 (refuted by the code): an update of status override with a value
\* replaces the stored value of its field, whatever the status stored, and
\* its field is not reported in conflicts.
C3_OverrideWins ==
    [][\A sid \in SessionIds, i \in DOMAIN updates :
          (/\ applied' = applied + 1
           /\ KeyOf(i) \in TriageKeys
           /\ Single(i)
           /\ updates[i].status = "override"
           /\ NewOf(i) # None)
          => /\ \A n \in DOMAIN ret'.conflicts : ret'.conflicts[n] # KeyOf(i)
             /\ store'[sid].triage_fields[KeyOf(i)].value
                    = NormalizeValue(KeyOf(i), NewOf(i))]_vars

(***************************************************************************)
(* Claims on the conversation, under SpecTurn.                             *)
(***************************************************************************)
\* The quality results should_handoff is tried on: every grade, scores on
\* both sides of the minimum, and gaps of every kind.
GateReasons ==
    {<<>>,
     <<Reason("missing_critical", "parking")>>,
     <<Reason("missing_payment_type", None), Reason("missing_condo_max_high_budget", None)>>,
     <<Reason("micro_location_ambiguous", None)>>,
     <<Reason("budget_inconsistent", None), Reason("inferred", "city")>>,
     <<Reason("inferred", "city"), Reason("inferred", "budget"),
       Reason("timeline_specific", None)>>}

GateQualities ==
    [score : {0, QUALITY_GATE_MIN_SCORE - 1, QUALITY_GATE_MIN_SCORE, 100},
     grade : {"A", "B", "C", "D"},
     reasons : GateReasons]

\* C7: once the quality-gate turn counter of a session has reached
\* MAX_QUALITY_GATE_TURNS (3), should_handoff returns true on the session
\* for every score, every grade and every set of gaps, those of the
\* session's own quality result included.
C7_GateTermination ==
    \A sid \in SessionIds :
        store[sid].quality_gate_turns >= MAX_QUALITY_GATE_TURNS
        => /\ \A q \in GateQualities : should_handoff(store[sid], q)
           /\ should_handoff(store[sid], compute_quality_score(store[sid]))

\* The gate asked its third question of a session whose quality result has
\* a low grade, a low score and a missing field left.
C7_Witness ==
    \E sid \in SessionIds :
        LET q == compute_quality_score(store[sid])
            gaps == identify_quality_gaps(store[sid], q)
        IN  /\ store[sid].quality_gate_turns = MAX_QUALITY_GATE_TURNS
            /\ out.kind = "gate_question"
            /\ q.grade \in {"C", "D"}
            /\ q.score < QUALITY_GATE_MIN_SCORE
            /\ Len(gaps.missing_required_fields) > 0

\* C8: when two consecutive turns of a session both end in a question of
\* the Question Selector, and a critical field other than the one just
\* asked is still missing, the second question is on another field.
C8_NoRepeat ==
    [][\A sid \in SessionIds :
          (/\ applied' = applied + 1
           /\ out.kind = "question"
           /\ out'.kind = "question"
           /\ \E f \in Range(missing_critical_fields(store'[sid])) : f # out.key)
          => out'.key # out.key]_vars

\* The session but its turn counter.
SameButTurn(s, t) == t = [s EXCEPT !.message_index = t.message_index]

\* C9: no turn answers with the question it answered with the turn before
\* while the reply of the user leaves the session as it was, turn counter
\* aside: such a turn repeats for ever on the same reply, and the field is
\* asked on unboundedly many turns.
C9_NoQuestionLoop ==
    [][\A sid \in SessionIds :
          ~(/\ applied' = applied + 1
            /\ out.kind \in {"question", "gate_question"}
            /\ out' = out
            /\ SameButTurn(store[sid], store'[sid]))]_vars

\* C10: a reply that is a refusal, in a session that is not over and has
\* asked a field, raises the refusal counter of that field by one; and no
\* turn asks a field refused twice.
C10_RefusalCounted ==
    [][\A sid \in SessionIds :
          (applied' = applied + 1)
          => /\ (/\ detect_field_refusal(msg'.text)
                 /\ ~store[sid].completed
                 /\ store[sid].last_question_key \in QuestionKeys)
                => store'[sid].field_refusals[store[sid].last_question_key]
                     = store[sid].field_refusals[store[sid].last_question_key] + 1
             /\ (/\ out'.kind \in {"question", "gate_question", "conflict"}
                 /\ out'.key \in QuestionKeys)
                => store[sid].field_refusals[out'.key] < 2]_vars

\* The hot-lead events appended so far (events.jsonl).
Events == persistence.events

SummaryEmitted(o) == o.kind = "completed"

\* No critical field is missing and the quality gate lets the session go:
\* should_handoff holds, or the gate has no question left (controller.py:
\* 367, 392-393).
GatePermits(s) ==
    LET quality == compute_quality_score(s)
    IN  /\ missing_critical_fields(s) = <<>>
        /\ \/ should_handoff(s, quality)
           \/ next_question_from_quality_gaps(s, quality) = None

C13_NurtureUnrouted ==
    [][\A sid \in SessionIds :
          (/\ applied' = applied + 1
           /\ out'.kind = "completed"
           /\ store'[sid].lead_class = "COLD"
           /\ compute_quality_score(store'[sid]).grade \in {"C", "D"})
          => /\ store'[sid].sla = "nurture"
             /\ out'.agent = None
             /\ \A a \in Range(TurnRoster) :
                   StatsGet(load_stats(file', today), a).n
                     = StatsGet(load_stats(file, today), a).n]_vars

\* The critical fields kept in triage_fields and in the criteria; the
\* intent is an attribute of the session.
CriticalCriteria ==
    {"city", "neighborhood", "property_type", "bedrooms", "parking", "budget",
     "timeline"}

\* The turn called route_lead: the completion is the only call of it
\* (controller.py:446), and nothing else assigns an agent or writes the
\* counters.
Routed(o, f, g) == o.kind = "completed" \/ o.agent # None \/ f # g

\* C14: a turn routes the lead only when every critical field of the
\* session is set: the intent, and city, neighbourhood, property type,
\* bedrooms, parking, budget and timeline, both as triage fields and as the
\* criteria the router reads.
C14_RoutedOnlyWhenComplete ==
    [][\A sid \in SessionIds :
          (applied' = applied + 1 /\ Routed(out', file, file'))
          => /\ store'[sid].intent # None
             /\ \A k \in CriticalCriteria :
                   /\ _value(store'[sid], k) # None
                   /\ store'[sid].criteria[k] # None
             /\ missing_critical_fields(store'[sid]) = <<>>]_vars

\* C14 witness: a turn routed a lead to an agent and raised its counter.
C14_Witness ==
    \E sid \in SessionIds :
        /\ out.kind = "completed"
        /\ out.agent \in Range(TurnRoster)
        /\ StatsGet(load_stats(file, today), out.agent).n > 0
        /\ store[sid].completed
        /\ missing_critical_fields(store[sid]) = <<>>

C16_NoCoverReturnsNone ==
    [][LET lead_neighborhood == _normalize_neighborhood(req.lead.neighborhood)
           active == {req.roster[i] : i \in DOMAIN req.roster} \cap
                        {id \in AgentIds : Agent(id).active}
       IN  (/\ clock' = clock + 1
            /\ lead_neighborhood # None
            /\ \A id \in active :
                  /\ lead_neighborhood \notin AgentNeighborhoods(Agent(id))
                  /\ "*" \notin Agent(id).coverage_neighborhoods
                  /\ "generalista" \notin Agent(id).specialties
                  /\ Agent(id).coverage_neighborhoods # {})
           => res'.agent = None /\ file' = file]_vars

(***************************************************************************)
(* Further claims on apply_updates, under SpecApply.                       *)
(***************************************************************************)
\* The field of the update at place i came back as a conflict.
Reported(r, i) == \E n \in DOMAIN r.conflicts : r.conflicts[n] = KeyOf(i)

\* C17: the entries of a batch are processed one by one.  An entry whose
\* field comes back as a conflict leaves the value and the status of the
\* field (the intent, for an entry on the intent) as they were; every other
\* entry of the batch that carries a value is applied: its field holds the
\* normalised value with the status of the entry, whatever became of the
\* other entries.
C17_EntriesIndependent ==
    [][\A sid \in SessionIds, i \in DOMAIN updates :
          LET k == KeyOf(i)
              s == store[sid]
              t == store'[sid]
          IN  (applied' = applied + 1 /\ Single(i) /\ NewOf(i) # None)
              => /\ (k \in TriageKeys /\ Reported(ret', i))
                    => /\ t.triage_fields[k] = s.triage_fields[k]
                       /\ k \in CriteriaKeys
                          => /\ t.criteria[k] = s.criteria[k]
                             /\ t.criteria_status[k] = s.criteria_status[k]
                 /\ (k \in TriageKeys /\ ~Reported(ret', i)
                       /\ NormalizeValue(k, NewOf(i)) # None)
                    => t.triage_fields[k] = [value |-> NormalizeValue(k, NewOf(i)),
                                             status |-> updates[i].status]
                 /\ (k = "intent" /\ Reported(ret', i)) => t.intent = s.intent
                 /\ (k = "intent" /\ ~Reported(ret', i)) => t.intent = updates[i].value]_vars

\* C17 witness: a batch of two entries was applied; the field of one came
\* back as a conflict and kept its value, the field of the other holds the
\* new value of its entry, which is not the one it held.
C17_Witness ==
    /\ applied = 1
    /\ Len(updates) = 2
    /\ \E sid \in SessionIds, i, j \in DOMAIN updates :
          /\ i # j
          /\ KeyOf(i) \in TriageKeys /\ KeyOf(j) \in TriageKeys
          /\ ret.conflicts = <<KeyOf(i)>>
          /\ store[sid].triage_fields[KeyOf(i)].value = ret.conflict_values[KeyOf(i)].previous
          /\ store[sid].triage_fields[KeyOf(i)].value # NewOf(i)
          /\ store[sid].triage_fields[KeyOf(j)] =
                [value |-> NormalizeValue(KeyOf(j), NewOf(j)), status |-> updates[j].status]

\* C18 (refuted by the code): once an intent is stored, an update of the
\* intent that is not marked override and carries another value comes back
\* as a conflict with the detail {previous, new}, and the stored intent is
\* left as it was.
C18_IntentConflict ==
    [][\A sid \in SessionIds, i \in DOMAIN updates :
          (/\ applied' = applied + 1
           /\ KeyOf(i) = "intent"
           /\ Single(i)
           /\ updates[i].status # "override"
           /\ store[sid].intent # None
           /\ updates[i].value \notin {None, store[sid].intent})
          => /\ Reported(ret', i)
             /\ "intent" \in DOMAIN ret'.conflict_values
             /\ ret'.conflict_values["intent"] =
                    [previous |-> store[sid].intent, new |-> updates[i].value]
             /\ store'[sid].intent = store[sid].intent]_vars

\* The identity fields of the lead profile.
IdentityFields == {"name", "phone", "email"}

\* C19 (refuted by the code): each identity field is set once: a call of
\* apply_updates on a session that holds a name, a phone or an e-mail
\* leaves that field as it was.
C19_IdentitySetOnce ==
    [][\A sid \in SessionIds, f \in IdentityFields :
          (applied' = applied + 1 /\ store[sid].lead_profile[f] # None)
          => store'[sid].lead_profile[f] = store[sid].lead_profile[f]]_vars

\* C20 (refuted by the code): applying the same confirmed value to a field
\* twice never produces a conflict: when a batch is applied a second time,
\* an entry of status confirmed that carries a value and was applied the
\* first time without conflict is applied again without conflict.
C20_SameValueNoConflict ==
    [][\A sid \in SessionIds, i \in DOMAIN updates :
          (/\ applied = 1
           /\ applied' = 2
           /\ KeyOf(i) \in TriageKeys \cup {"intent"}
           /\ Single(i)
           /\ updates[i].status = "confirmed"
           /\ NewOf(i) # None
           /\ ~Reported(ret, i))
          => ~Reported(ret', i)]_vars

(***************************************************************************)
(* Claims on the quality gate and on the scores.                           *)
(***************************************************************************)
\* The gaps of every kind found in a quality result.
AllGaps(s, q) ==
    LET gaps == identify_quality_gaps(s, q)
    IN  Len(gaps.missing_required_fields) + Len(gaps.ambiguous_fields)
        + Len(gaps.conflicting_fields) + Len(gaps.low_confidence_fields)
        + Len(gaps.dealbreakers)

\* C21 (refuted by the code): while the gate has not asked its three
\* questions, on a quality result of grade C or D with a score below 70
\* should_handoff returns true exactly when the result has no gap of any
\* kind: no missing required, ambiguous, conflicting, low-confidence or
\* dealbreaker field.
C21_HandoffOnlyWithoutGaps ==
    \A sid \in SessionIds :
        \A q \in GateQualities \cup {compute_quality_score(store[sid])} :
            (/\ store[sid].quality_gate_turns < MAX_QUALITY_GATE_TURNS
             /\ q.grade = Grade(q.score)
             /\ q.grade \in {"C", "D"}
             /\ q.score < QUALITY_GATE_MIN_SCORE)
            => (should_handoff(store[sid], q) <=> AllGaps(store[sid], q) = 0)

\* The critical field is missing for the Quality Scorer: no intent, or no
\* value stored for the field.
MissingCritical(s, f) ==
    IF f = "intent" THEN s.intent = None
    ELSE s.triage_fields[f].value = None /\ s.criteria[f] = None

\* The values a critical field may be resolved to.
ResolveValues(f) ==
    CASE f = "intent" -> {"comprar", "alugar", "investir"}
      [] f = "budget" -> {"400000", "900000"}
      [] f = "timeline" -> {"6 meses", "sem pressa"}
      [] OTHER -> {AnswerValue(f)}

\* The session with the one field resolved and nothing else changed.
Resolved(s, f, v, st) ==
    IF f = "intent" THEN [s EXCEPT !.intent = v] ELSE set_criterion(s, f, v, st)

\* The sessions compared: the session as the conversation left it, and the
\* same with a minimum budget stored.
Bases(s) == {s, set_criterion(s, "budget_min", "700000", "confirmed")}

\* C22 (refuted by the code): for a session and the same session with one
\* missing critical field resolved (to any value, confirmed or inferred)
\* and nothing else changed, the quality score of the second is not below
\* that of the first.
C22_MonotonicQuality ==
    \A sid \in SessionIds, f \in Range(CRITICAL_ORDER) :
        \A b \in Bases(store[sid]) :
            MissingCritical(b, f)
            => \A v \in ResolveValues(f), st \in {"confirmed", "inferred"} :
                  compute_quality_score(Resolved(b, f, v, st)).score
                     >= compute_quality_score(b).score

\* The sum compute_quality_score has reached before it applies the limits.
RawQuality(s) == 100 + SumDelta(QualityParts(s), 1)

\* The session with the secondary fields answered as well: the distance to
\* the sea, the condominium fee and the payment.
Polished(s) ==
    set_criterion(set_criterion(set_criterion(s, "micro_location", "beira-mar", "confirmed"),
                                "condo_max", "800", "confirmed"),
                  "payment_type", "financiamento", "confirmed")

\* C23: the quality score of every session, as the conversation left it,
\* with a minimum budget stored or with the secondary fields answered, lies
\* within 0..100: it is the sum of the adjustments cut to that range; and
\* the grade is A from 85, B from 70, C from 50, D below.
C23_QualityRange ==
    \A sid \in SessionIds :
        \A b \in Bases(store[sid]) \cup {Polished(store[sid])} :
            LET q == compute_quality_score(b)
                raw == RawQuality(b)
            IN  /\ q.score \in 0..100
                /\ q.score = IF raw < 0 THEN 0 ELSE IF raw > 100 THEN 100 ELSE raw
                /\ q.grade = "A" <=> q.score >= 85
                /\ q.grade = "B" <=> (q.score >= 70 /\ q.score < 85)
                /\ q.grade = "C" <=> (q.score >= 50 /\ q.score < 70)
                /\ q.grade = "D" <=> q.score < 50

\* C23 witness: a conversation left a session whose adjustments, once the
\* secondary fields are answered, sum to more than 100; its score is 100 and
\* its grade A.
C23_Witness ==
    \E sid \in SessionIds :
        /\ store[sid].message_index > 0
        /\ RawQuality(Polished(store[sid])) > 100
        /\ compute_quality_score(Polished(store[sid])).score = 100
        /\ compute_quality_score(Polished(store[sid])).grade = "A"

\* C24 (refuted by the code): the lead score of every session lies within
\* 0..100, and the temperature the Lead Scorer stores is hot from 80, warm
\* from 50 and cold below, as is the class the SLA Policy gives it.
C24_LeadTemperature ==
    \A sid \in SessionIds :
        LET l == compute_lead_score(store[sid])
            expected == IF l.score >= 80 THEN "hot"
                        ELSE IF l.score >= 50 THEN "warm" ELSE "cold"
        IN  /\ l.score \in 0..100
            /\ l.temperature = expected
            /\ classify_lead(l.score) = CASE expected = "hot" -> "HOT"
                                            [] expected = "warm" -> "WARM"
                                            [] OTHER -> "COLD"

(***************************************************************************)
(* Claims on the question selector and on the router.                      *)
(***************************************************************************)
\* The sessions in which the general coast reference "orla" has just been
\* stored as the micro-location of s: through set_criterion, and through
\* apply_updates where the update is not reported as a conflict.
CoastStored(s) ==
    {set_criterion(s, "micro_location", "orla", st) : st \in {"confirmed", "inferred"}}
    \cup {apply_updates(s, <<Upd("micro_location", "orla", st)>>).s :
            st \in {st2 \in {"confirmed", "inferred"} :
                      apply_updates(s, <<Upd("micro_location", "orla", st2)>>).conflicts = <<>>}}

\* C25 (refuted by the code): whenever the micro-location stored is the
\* general coast reference, the question selector picks micro_location ahead
\* of every other field.
C25_CoastPlaceholderFirst ==
    \A sid \in SessionIds :
        \A t \in CoastStored(store[sid]) :
            next_best_question_key(t) = "micro_location"

\* The score score_agent gives the agent id on the stats the decision
\* loaded from the file f.
ScoreOf(f, id) == score_agent(Agent(id), req.lead, Seen(f, req.roster), req.priority)

\* The agents of the roster that survive the filters on those stats.
Survivors(f) ==
    {id \in {load_agents(req)[i] : i \in DOMAIN load_agents(req)} :
        ScoreOf(f, id) > Excluded}

\* The place of the agent id in the roster.
PlaceOf(id) == CHOOSE i \in DOMAIN req.roster : req.roster[i] = id

\* C26: when some agent survives the filters, the agent returned is a
\* survivor of the highest score; among the survivors of that score it has
\* the fewest assignments today, and among those the oldest stamp of last
\* assignment, an agent never assigned (stamp 0) coming first.
C26_BestSurvivor ==
    [][(clock' = clock + 1 /\ Survivors(file) # {})
           => /\ res'.agent \in Survivors(file)
              /\ res'.score = ScoreOf(file, res'.agent)
              /\ \A id \in Survivors(file) :
                    LET b == StatsGet(Seen(file, req.roster), res'.agent)
                        o == StatsGet(Seen(file, req.roster), id)
                    IN  /\ ScoreOf(file, id) <= res'.score
                        /\ ScoreOf(file, id) = res'.score => b.n <= o.n
                        /\ (ScoreOf(file, id) = res'.score /\ b.n = o.n)
                               => b.last <= o.last]_vars

\* C26 witness: the agent returned stands later in the roster than another
\* survivor of the same score and of the same number of assignments before
\* the decision, so that the stamp decided.
C26_Witness ==
    /\ res.strategy = "score_based"
    /\ \E id \in Survivors(file) \ {res.agent} :
          /\ ScoreOf(file, id) = res.score
          /\ StatsGet(file.agents, id).n + 1 = StatsGet(file.agents, res.agent).n
          /\ StatsGet(file.agents, id).last > 0
          /\ PlaceOf(id) < PlaceOf(res.agent)

\* The agent id supports the operation the lead's intent stands for.
Supports(id, intent) ==
    /\ intent \in {"alugar", "aluguel"} => "rent" \in Agent(id).ops
    /\ intent \in {"comprar", "compra", "investir"} => "buy" \in Agent(id).ops

\* C27: the agent a decision returns, by the scores or by either fallback,
\* is active and supports the operation of the lead.
C27_ActiveAndCompatible ==
    res.agent # None
        => /\ res.agent \in {req.roster[i] : i \in DOMAIN req.roster}
           /\ Agent(res.agent).active
           /\ Supports(res.agent, req.lead.intent)

\* C27 witness: the last fallback (any active compatible agent) returned an
\* agent from a roster that also holds an agent that is inactive or does
\* not support the operation.
C27_Witness ==
    /\ res.agent # None
    /\ res.strategy = "fallback_default_queue"
    /\ \E i \in DOMAIN req.roster :
          ~Agent(req.roster[i]).active \/ ~Supports(req.roster[i], req.lead.intent)

\* C28: a decision returns None, and raises no counter, when the agents
\* file is missing or cannot be read, when the roster loaded is empty, and
\* when no agent of the roster is active and supports the lead's operation.
C28_NoneWithoutAgent ==
    [][(/\ clock' = clock + 1
        /\ \/ req.load # "ok"
           \/ req.roster = <<>>
           \/ \A i \in DOMAIN req.roster :
                 ~Agent(req.roster[i]).active
                 \/ ~Supports(req.roster[i], req.lead.intent))
           => res' = NoRes /\ file' = file]_vars

\* C28 witness: the agents file could not be read; it holds an active agent
\* that supports the operation and has no assignment, and the decision
\* returned None.
C28_Witness ==
    /\ clock = MaxStamp + 1
    /\ req.load = "invalid"
    /\ file = NoFile
    /\ \E i \in DOMAIN req.roster :
          Agent(req.roster[i]).active /\ Supports(req.roster[i], req.lead.intent)
    /\ res.agent = None

\* assigned_today of the agent id as a decision made today must find it in
\* the file f: 0 when f was written on another day, else the stored count.
CountToday(f, id) == IF f.date # today THEN 0 ELSE Stored(f, id)

\* C29: a decision that finds a stats file counts from zero for every agent
\* when the file was written on another day, and from the stored counts
\* when it was written today: the agent returned is stored with that count
\* plus one, every other agent with that count, under today's date.
C29_DailyReset ==
    [][(clock' = clock + 1 /\ file.exists /\ res'.agent # None)
           => /\ file'.date = today
              /\ Stored(file', res'.agent) = CountToday(file, res'.agent) + 1
              /\ \A id \in DOMAIN file'.agents \ {res'.agent} :
                    /\ id \in DOMAIN file.agents
                    /\ file'.agents[id].n = CountToday(file, id)]_vars

\* C29 witness: a decision was made on the day after the file was written
\* (the files of the model are written on day 0); the file now carries
\* today's date, the agent returned has count 1 and another agent, stamped
\* by an earlier assignment, has count 0.
C29_Witness ==
    /\ today = 1
    /\ clock = MaxStamp + 1
    /\ res.agent # None
    /\ file.date = today
    /\ Stored(file, res.agent) = 1
    /\ \E id \in DOMAIN file.agents \ {res.agent} :
          file.agents[id].n = 0 /\ file.agents[id].last > 0

(***************************************************************************)
(* Claim on the state shared between sessions, under SpecShared.           *)
(***************************************************************************)
\* C30 (refuted by the code): what a session gets depends on nothing another
\* session did: the first call made for a session, with the LLM in use and
\* the provider answering, is decided by the LLM.
C30_SessionIsolation ==
    \A sid \in LlmSessions :
        (/\ llm.enabled
         /\ decided[sid].calls = 1
         /\ decided[sid].provider = "ok")
            => decided[sid].source = "llm"

(***************************************************************************)
(* Claims on the stats file, on the fallback and on resets.                *)
(***************************************************************************)
\* C31: the content of the stats file is written to the temporary file and
\* renamed over the stats file when it is whole: at no moment does the
\* stats file, the only file load_stats reads, hold a part of a content.
C31_WholeStatsFile ==
    /\ file.exists => file.whole
    /\ \A w \in Workers : pc[w] = "rename" => (tmp.exists /\ tmp.whole)

\* C31 witness: a worker is in the middle of writing the temporary file
\* while the other is about to read the stats file, which an earlier save
\* left whole.
C31_Witness ==
    /\ file.exists /\ file.whole
    /\ tmp.exists /\ ~tmp.whole
    /\ \E w1, w2 \in Workers : pc[w1] = "write" /\ pc[w2] = "idle"

\* The cache holds a decision for the message and the summary that is
\* younger than _CACHE_TTL.
Cached(message, summary) ==
    \E e \in llm.cache : e.key = <<message, summary>> /\ clock - e.at < _CACHE_TTL

\* C32: every call of llm_decide returns a decision; when the LLM is not in
\* use, when a cooldown is running, and when call_llm is called and fails
\* (on a rate limit or otherwise), the decision is the rule-based fallback.
C32_FallbackOnFailure ==
    [][\A sid \in LlmSessions :
          decided'[sid].calls = decided[sid].calls + 1
              => LET d == decided'[sid]
                 IN  /\ d.source \in {"llm", "cache", "fallback"}
                     /\ (\/ ~llm.enabled
                         \/ clock < llm.rate_limit_until
                         \/ d.provider # "ok" /\ ~Cached(d.message, d.summary))
                            => d.source = "fallback"]_vars

\* C32 witness: with the LLM in use and no cooldown running, a call whose
\* provider failed otherwise than on a rate limit got the fallback.
C32_Witness ==
    \E sid \in LlmSessions :
        /\ llm.enabled
        /\ llm.rate_limit_until = 0
        /\ decided[sid].provider = "error"
        /\ decided[sid].source = "fallback"

\* C36 (refuted by the code): once a call of llm_decide has sent a request
\* that failed on a rate limit of the provider, no call made by any session
\* during the cooldown of a rate limit sends a request, and each of them is
\* decided by the fallback.
C36_NoCallDuringCooldown ==
    [][\A other, sid \in LlmSessions :
          (/\ decided[other].provider = "rate_limit"
           /\ decided[other].requests > 0
           /\ clock < decided[other].at + cooldown("RATE_LIMIT_RPM")
           /\ decided'[sid].calls = decided[sid].calls + 1)
              => /\ decided'[sid].requests = 0
                 /\ decided'[sid].source = "fallback"]_vars

GateAsks(sid, key) ==
    Cardinality({i \in DOMAIN gate_asked[sid] : gate_asked[sid][i] = key})

\* C34 (refuted by the code): within one session the gate asks no field
\* more than twice.
C34_GateAsksAtMostTwice ==
    \A sid \in SessionIds : \A key \in QuestionKeys : GateAsks(sid, key) <= 2

\* C35 (refuted by the code): a turn whose updates yield a conflict ends
\* with the clarification question on the first field in conflict, names
\* no agent and leaves the session open.
C35_ConflictAsksClarification ==
    \A sid \in SessionIds :
        ret.conflicts # <<>>
            => /\ out.kind = "conflict"
               /\ out.key = ret.conflicts[1]
               /\ out.agent = None
               /\ ~store[sid].completed

(***************************************************************************)
(* Claims on the protection of stored values, under SpecApply.             *)
(***************************************************************************)
\* The batch holds an update with the status override.
HasOverride(batch) == \E i \in DOMAIN batch : batch[i].status = "override"

\* C37 (refuted by the code): a batch without override leaves every
\* confirmed field confirmed, so that the field stays protected against a
\* later different value.
C37_ConfirmedStaysProtected ==
    [][\A sid \in SessionIds : \A k \in {"city", "budget", "micro_location"} :
          (/\ applied' = applied + 1
           /\ ~HasOverride(updates)
           /\ store[sid].triage_fields[k].status = "confirmed")
              => store'[sid].triage_fields[k].status = "confirmed"]_vars

\* C38 (refuted by the code): a city written by an override update is
\* protected: a later update of the city that is no override and carries
\* another value is reported as a conflict and leaves the stored city
\* alone.
C38_OverrideProtected ==
    [][\A sid \in SessionIds :
          LET prev == store[sid].triage_fields["city"]
          IN  (/\ applied' = applied + 1
               /\ prev.status = "override"
               /\ \E i \in DOMAIN updates :
                     /\ updates[i].key = "city"
                     /\ updates[i].status # "override"
                     /\ updates[i].value \notin {None, prev.value})
                  => /\ "city" \in Range(ret'.conflicts)
                     /\ store'[sid].triage_fields["city"] = prev]_vars

(***************************************************************************)
(* Claims on what a routing decision and a completed session leave.        *)
(***************************************************************************)
\* C39 (refuted by the code): a routing decision leaves the stored record
\* of every agent but the one it returns as it was, whether the roster
\* lists the agent or not: the agent is still stored, with the count it
\* had today and with its timestamp; a decision that returns none leaves
\* the stats file as it was.
C39_OnlyChosenChanges ==
    [][(clock' = clock + 1)
           => /\ \A id \in DOMAIN file.agents \ {res'.agent} :
                    /\ id \in DOMAIN file'.agents
                    /\ CountToday(file', id) = CountToday(file, id)
                    /\ file'.agents[id].last = file.agents[id].last
              /\ res'.agent = None => file' = file]_vars

\* The assignments of today the stats file counts for the agents of the
\* roster.
AssignedToday(f) ==
    StatsGet(load_stats(f, today), TurnRoster[1]).n
      + StatsGet(load_stats(f, today), TurnRoster[2]).n

\* C40: a session takes at most one assignment between two resets.  A turn
\* on a completed session that does not reset it leaves it completed,
\* returns no agent and leaves the stats file as it was; a turn that
\* returns an agent or writes the stats file is the turn that completes the
\* session, on a session that was not completed or that this turn reset,
\* and it raises the counter of one agent by one and no other counter.
C40_OneAssignmentPerLifetime ==
    [][\A sid \in SessionIds :
          LET s == store[sid]
              t == store'[sid]
              reset == s.completed /\ HasGreeting(msg'.text) /\ HasIntentKeyword(msg'.text)
          IN  (applied' = applied + 1)
              => /\ (s.completed /\ ~reset)
                    => /\ t.completed
                       /\ out'.agent = None
                       /\ file' = file
                 /\ (out'.agent # None \/ file' # file)
                    => /\ ~s.completed \/ reset
                       /\ t.completed
                       /\ out'.kind = "completed"
                       /\ out'.agent \in Range(TurnRoster)
                       /\ AssignedToday(file') = AssignedToday(file) + 1
                       /\ \A a \in Range(TurnRoster) \ {out'.agent} :
                             StatsGet(load_stats(file', today), a).n
                               = StatsGet(load_stats(file, today), a).n]_vars

\* C40 witness: a session was completed with an agent assigned, and two
\* later messages that do not reset it were answered as concluded: the
\* stats file still counts the one assignment.
C40_Witness ==
    \E sid \in SessionIds :
        /\ store[sid].completed
        /\ out.kind = "concluded"
        /\ out.agent = None
        /\ ~(HasGreeting(msg.text) /\ HasIntentKeyword(msg.text))
        /\ store[sid].message_index + 2 <= applied
        /\ AssignedToday(file) > 0
        /\ Len(persistence.leads) = 2

============================================================================
